---- MODULE Spec2Model ----
(***************************************************************************)
(* The command/event dispatch core of the `boot` IRC bot.                  *)
(*                                                                         *)
(* The receive loop of main() drains one bounded mpsc queue of commands.   *)
(* A Message command is handled by process_messages (bot.rs): pending      *)
(* notifications are delivered, the text is classified and the matching    *)
(* handler runs.  Handlers talk to the sqlite store, write lines to the    *)
(* IRC client (client.send_privmsg) and spawn tasks; spawned tasks call    *)
(* the fetchers and report back through the same queue.                    *)
(*                                                                         *)
(* Strings are modelled as atoms, formatted lines as records holding the   *)
(* format string and its arguments, Option<T> as a sequence of length 0    *)
(* or 1, and a table as the sequence of its rows in rowid order.           *)
(***************************************************************************)
EXTENDS Integers, Sequences, FiniteSets, TLC

\* ------------------------------------------------------------ bounds
\* number of commands run_bot puts on the queue in one behaviour
MaxEvents == 3

\* the same, where every handler that fetches is in play
MaxTaskEvents == 2

\* messages said while hangman is played
MaxHangEvents == 3

\* messages said in the game that is played to its loss
MaxLossEvents == 9

\* messages in a burst: enough to fill the queue behind a command
MaxBurstEvents == 33

\* messages in a run of tells and chat
MaxTellEvents == 5

\* prices in one sparkline
MaxPrices == 3

\* candles in one answer of the exchange
MaxCandles == 2

\* 2^24: from here on the f32 values are the even whole numbers
TwoTo24 == 16777216

\* f32::MAX, in thousandths larger than every price
F32Max == 1000000

\* capacity of the command queue: mpsc::channel::<BotCommand>(32)
QueueCap == 32

\* check_notification stops once the vector holds more than one line
NotifyBreak == 1

VARIABLES
    queue,          \* the mpsc channel: commands sent and not yet received
    loop,           \* where the receive loop is: "recv", an await inside a
                    \* handler ("lastfm", "send"), "panicked" or "quit"
    wait,           \* what the loop holds across the await it is in
    apiKey,         \* settings.bot.weather_api is Some(_)
    notifications,  \* table notifications
    nextId,         \* its AUTOINCREMENT counter
    seen,           \* table seen
    locations,      \* table locations
    weather,        \* table weather
    coins,          \* table coins
    sink,           \* every call of client.send_privmsg, in order
    tasks,          \* the tasks spawned so far, by task number
    printed,        \* the error lines written with println!, each with the
                    \* number of the message being handled (0: none)
    events,         \* commands run_bot has sent so far
    command,        \* the last call of process_commands: its arguments and
                    \* the Task it returned
    call,           \* the last call of graph or of the statistics of
                    \* get_coins: its arguments and what it returned
    hangman         \* the hangman session

vars == <<queue, loop, wait, apiKey, notifications, nextId, seen, locations,
          weather, coins, sink, tasks, printed, events, command, call,
          hangman>>

store == <<notifications, nextId, seen, locations, weather, coins>>

\* ------------------------------------------------------------ values
OwnNick == "boot"

None == <<>>
Some(x) == <<x>>

Min(a, b) == IF a < b THEN a ELSE b

\* str::to_lowercase / sqlite's NOCASE folding, on the names of the model
Lower(s) ==
    CASE s = "Bob" -> "bob"
      [] s = "BERLIN" -> "berlin"
      [] s = "Berlin" -> "berlin"
      [] OTHER -> s

\* `a = b COLLATE NOCASE`
NoCaseEq(a, b) == Lower(a) = Lower(b)

\* a formatted line: the format string and the values of its placeholders
Text(fmt, a, b, c) == [fmt |-> fmt, a |-> a, b |-> b, c |-> c]

\* println!(what, err) while message number ev is handled (0: outside
\* process_messages)
Printed(what, ev) == [what |-> what, ev |-> ev]

\* who produced a line (not part of the program: it names the notification,
\* the command or the task a line comes from)
By(o, id) == [o |-> o, id |-> id]

\* ------------------------------------------------------------ sqlite.rs
\* Database::add_seen: upsert on the primary key username (BINARY collation)
DbAddSeen(tbl, e) ==
    IF \E i \in 1..Len(tbl) : tbl[i].username = e.username
    THEN [i \in 1..Len(tbl) |->
            IF tbl[i].username = e.username
            THEN [tbl[i] EXCEPT !.message = e.message, !.time = e.time]
            ELSE tbl[i]]
    ELSE Append(tbl, e)

\* Database::check_seen: the rows matching NOCASE, results.pop()
DbCheckSeen(tbl, nick) ==
    LET rows == SelectSeq(tbl, LAMBDA r : NoCaseEq(r.username, nick))
    IN IF rows = <<>> THEN None ELSE Some(rows[Len(rows)])

\* Database::add_notification: INSERT, the id is assigned by AUTOINCREMENT
DbAddNotification(tbl, id, e) ==
    Append(tbl, [id |-> id, recipient |-> e.recipient, via |-> e.via,
                 message |-> e.message])

\* Database::remove_notification: DELETE WHERE id = :id
DbRemoveNotification(tbl, id) == SelectSeq(tbl, LAMBDA r : r.id # id)

\* a lookup without its WHERE clause
DbCheckNotificationAnyone(tbl, nick) == tbl

\* Database::check_notification: every row whose recipient matches NOCASE
DbCheckNotification(tbl, nick) ==
    SelectSeq(tbl, LAMBDA r : NoCaseEq(r.recipient, nick))

\* a table locations without its primary key
DbAddLocationNoKey(tbl, loc) == FALSE

\* Database::add_location: plain INSERT; a row with the same loc violates
\* the primary key and the insert is an error (the table is unchanged)
DbAddLocationConflict(tbl, loc) == \E i \in 1..Len(tbl) : tbl[i].loc = loc

DbAddLocation(tbl, loc, e) ==
    Append(tbl, [loc |-> loc, lat |-> e.lat, lon |-> e.lon,
                 city |-> e.city, country |-> e.country])

\* check_location returning the first matching row instead of the last
DbCheckLocationFirst(tbl, loc) ==
    LET rows == SelectSeq(tbl, LAMBDA r : NoCaseEq(r.loc, loc))
    IN IF rows = <<>> THEN None
       ELSE Some([lat |-> rows[1].lat, lon |-> rows[1].lon,
                  city |-> rows[1].city, country |-> rows[1].country])

\* Database::check_location: the rows matching NOCASE, results.pop()
DbCheckLocation(tbl, loc) ==
    LET rows == SelectSeq(tbl, LAMBDA r : NoCaseEq(r.loc, loc))
    IN IF rows = <<>> THEN None
       ELSE Some([lat |-> rows[Len(rows)].lat, lon |-> rows[Len(rows)].lon,
                  city |-> rows[Len(rows)].city,
                  country |-> rows[Len(rows)].country])

\* Database::add_weather: upsert on the primary key username
DbAddWeather(tbl, user, lat, lon) ==
    IF \E i \in 1..Len(tbl) : tbl[i].username = user
    THEN [i \in 1..Len(tbl) |->
            IF tbl[i].username = user
            THEN [tbl[i] EXCEPT !.lat = lat, !.lon = lon]
            ELSE tbl[i]]
    ELSE Append(tbl, [username |-> user, lat |-> lat, lon |-> lon])

\* Database::check_weather: the rows matching NOCASE, results.pop()
DbCheckWeather(tbl, user) ==
    LET rows == SelectSeq(tbl, LAMBDA r : NoCaseEq(r.username, user))
    IN IF rows = <<>> THEN None
       ELSE Some([lat |-> rows[Len(rows)].lat, lon |-> rows[Len(rows)].lon])

\* ------------------------------------------------------------ state
\* max_attempts of the hangman session
MaxAttempts == 7

\* the hangman session while no game is running
NoGame ==
    [started |-> FALSE, word |-> <<>>, pattern |-> <<>>, wrong |-> {},
     attempts |-> 0]

Init ==
    /\ queue = <<>>
    /\ loop = "recv"
    /\ wait = None
    /\ apiKey \in BOOLEAN
    /\ notifications = <<>>
    /\ nextId = 1
    /\ seen = <<>>
    /\ locations = <<>>
    /\ weather = <<>>
    /\ coins = <<>>
    /\ sink = <<>>
    /\ tasks = <<>>
    /\ printed = {}
    /\ events = 0
    /\ command = None
    /\ call = None
    /\ hangman = NoGame

\* the receiver half of the queue exists while main() is in its loop
LoopAlive == loop \notin {"panicked", "quit"}

\* `while let Some(cmd) = rx.recv().await`
CanRecv == loop = "recv" /\ queue # <<>>

\* ------------------------------------------------------------ commands
\* the commands on the queue (enum BotCommand / Bot)
Msg(source, target, content, ev) ==
    [kind |-> "Message", source |-> source, target |-> target,
     content |-> content, ev |-> ev]

Privmsg(target, text, by) ==
    [kind |-> "Privmsg", target |-> target, text |-> text, by |-> by]

UpdateWeather(user, lat, lon) ==
    [kind |-> "UpdateWeather", user |-> user, lat |-> lat, lon |-> lon]

UpdateLocation(loc, e) == [kind |-> "UpdateLocation", loc |-> loc, e |-> e]

\* Bot::Hang(target, letter) and Bot::HangGuess(target, word); by: the Task
\* and the message it was made for
Hang(target, token, by) ==
    [kind |-> "Hang", target |-> target, token |-> token, by |-> by]

HangGuess(target, token, by) ==
    [kind |-> "HangGuess", target |-> target, token |-> token, by |-> by]

\* one call of client.send_privmsg(target, text); ok is its result
Line(target, text, by, ok) ==
    [target |-> target, text |-> text, by |-> by, ok |-> ok]

\* ------------------------------------------------------------ fetchers
\* what nominatim answers for a query that has a match: the first result
\* for that text (the same place can come back with other coordinates for
\* another spelling of the query)
Geocode(loc) ==
    [lat |-> IF loc = "berlin" THEN "52.5" ELSE "52.52", lon |-> "13.4",
     city |-> "Berlin", country |-> "Germany"]

\* format!("{},{}", lat, lon)
Coords(lat, lon) == [lat |-> lat, lon |-> lon]

NoCoords == [lat |-> "", lon |-> ""]

\* print_weather(get_weather(coords, key)): the line for the place at coords
PrintWeather(coords) ==
    Text("Weather for {}: {}, ...", coords.lat, coords.lon, "")

\* format!("https://www.openstreetmap.org/?mlat={}&mlon={}", l.lat, l.lon)
MapLink(l) ==
    Text("https://www.openstreetmap.org/?mlat={}&mlon={}", l.lat, l.lon, "")

\* process_messages maps the coin alias to the kraken pair
Pair(c) ==
    CASE c \in {"btc", "bitcoin"} -> "XXBTZUSD"
      [] c = "btcgbp" -> "XXBTZGBP"
      [] c \in {"eth", "ethereum"} -> "XETHZUSD"
      [] c = "ltc" -> "XLTCZUSD"
      [] c \in {"xmr", "monero"} -> "XXMRZUSD"
      [] c = "doge" -> "XDGUSD"
      [] OTHER -> "XXBTZUSD"

\* get_coins: Coin{coin, date, data_0 (graph line), data_1 (stats line)}
\* computed from the candles and the spot price the exchange returned (q)
GetCoins(pair, time_frame, q) ==
    [coin |-> pair, date |-> q,
     data_0 |-> Text("{coin} {sign}{} {} {graph} spot: {sign}{} {}",
                     pair, time_frame, q),
     data_1 |-> Text("{coin} high: {sign}{} {} // mean: {sign}{mean} // low: {sign}{} {}",
                     pair, time_frame, q)]

\* ------------------------------------------------------------ bot.rs
\* HumanTime::from(duration).to_text_en(Accuracy::Rough, Tense::Past); the
\* clock of the model is the number of commands run_bot has sent
HumanTime(d) ==
    CASE d = 0 -> "now"
      [] d = 1 -> "a moment ago"
      [] OTHER -> "a while ago"

\* check_seen(nick, db): the reply of the seen command
CheckSeen(tbl, nick, dbOk, now) ==
    IF ~dbOk THEN Text("SQL error", "", "", "")
    ELSE LET p == DbCheckSeen(tbl, nick)
         IN IF p = None
            THEN Text("{} has not previously been seen", nick, "", "")
            ELSE Text("{} was last seen {} {}", p[1].username,
                      HumanTime(now - p[1].time), p[1].message)

\* check_notification without its `break`
RemovalsAll(tbl, nick) == Len(DbCheckNotification(tbl, nick))

\* how many times check_notification calls db.remove_notification when the
\* lookup succeeds
Removals(tbl, nick) == Min(Len(DbCheckNotification(tbl, nick)), NotifyBreak + 1)

\* check_notification(nick, db): the lines to deliver and the table left.
\* lookupOk is the result of db.check_notification, rmOk[i] the result of
\* the i-th db.remove_notification.
CheckNotification(tbl, nick, lookupOk, rmOk) ==
    IF ~lookupOk
    THEN [lines |-> <<>>, ids |-> <<>>, tbl |-> tbl, printed |-> {}]
    ELSE LET n == DbCheckNotification(tbl, nick)
             k == Removals(tbl, nick)
             removed == {n[i].id : i \in {j \in 1..k : rmOk[j]}}
         IN [lines |-> [i \in 1..k |->
                          Text("{}, message from {}: {}", nick, n[i].via,
                               n[i].message)],
             ids |-> [i \in 1..k |-> n[i].id],
             tbl |-> SelectSeq(tbl, LAMBDA r : r.id \notin removed),
             printed |-> IF \E j \in 1..k : ~rmOk[j]
                         THEN {"SQL error checking notification: {}"}
                         ELSE {}]

\* the reply to a stored tell
TellReply(n) == Text("Ok, I'll tell {} that", n, "", "")

\* a spawned task: its kind, where it is, the values it captured, what its
\* first fetch returned, the messages it still has to send and where it
\* goes once they are sent (ev: the message whose handler spawned it)
Task(kind, ev, target, source, location, coords, a, b) ==
    [kind |-> kind, pc |-> "fetch", target |-> target, source |-> source,
     location |-> location, coords |-> coords, a |-> a, b |-> b,
     res |-> "", out |-> <<>>, then |-> "done", ev |-> ev]


\* what one handler of process_messages does after the notifications:
\* the lines it sends, the notifications table it leaves, the tasks it
\* spawns and the await it stops in
Handled(tbl) ==
    [out |-> <<>>, notif |-> tbl, nextId |-> nextId, spawn |-> <<>>,
     loop |-> "recv", wait |-> None, printed |-> {}]

\* the easter egg: content.trim().starts_with("nn ")
NnCmd(msg, h) ==
    [h EXCEPT !.out = <<IF msg.content.a = OwnNick
                        THEN Text("nn {}", msg.source, "", "")
                        ELSE Text("nn", "", "", "")>>]

\* Task::Message(m)
MessageCmd(msg, h) == [h EXCEPT !.out = <<Text(msg.content.a, "", "", "")>>]

\* Task::Seen(n)
\* SeenCmd logging a store error like the other handlers, without a reply
SeenCmdSilentOnError(msg, h, dbOk) ==
    IF ~dbOk THEN h
    ELSE [h EXCEPT !.out = <<CheckSeen(seen, msg.content.a, dbOk, events)>>]

\* Task::Seen(n): one line, whatever db.check_seen returned (dbOk)
SeenCmd(msg, h, dbOk) ==
    [h EXCEPT !.out = <<CheckSeen(seen, msg.content.a, dbOk, events)>>]

\* TellCmd without the `return` after a failed add_notification
TellCmdNoReturn(msg, h, dbOk) ==
    IF ~dbOk
    THEN [h EXCEPT !.printed = {"SQL error adding notification: {}"},
                   !.out = <<TellReply(msg.content.a)>>]
    ELSE [h EXCEPT
            !.notif = DbAddNotification(h.notif, nextId,
                        [recipient |-> msg.content.a, via |-> msg.source,
                         message |-> msg.content.b]),
            !.nextId = nextId + 1,
            !.out = <<TellReply(msg.content.a)>>]

\* Task::Tell(n, m); dbOk is the result of db.add_notification
TellCmd(msg, h, dbOk) ==
    IF ~dbOk THEN [h EXCEPT !.printed = {"SQL error adding notification: {}"}]
    ELSE [h EXCEPT
            !.notif = DbAddNotification(h.notif, nextId,
                        [recipient |-> msg.content.a, via |-> msg.source,
                         message |-> msg.content.b]),
            !.nextId = nextId + 1,
            !.out = <<TellReply(msg.content.a)>>]

\* Task::Weather(l); l = None is content.a = "".  dbOk is the result of
\* db.check_weather (l = None) or db.check_location (l = Some)
WeatherCmd(msg, h, dbOk) ==
    LET l == msg.content.a
        geo == Task("geoweather", msg.ev, msg.target, msg.source, l, NoCoords,
                    "", "")
        known(c) == Task("weather", msg.ev, msg.target, "", "", c, "", "")
    IN IF ~apiKey THEN h
       ELSE IF l = ""
       THEN IF ~dbOk
            THEN [h EXCEPT !.spawn = <<geo>>,
                           !.printed = {"Error checking weather: {}"}]
            ELSE LET w == DbCheckWeather(weather, msg.source)
                 IN IF w = None
                    THEN [h EXCEPT !.out =
                            <<Text("Hint: weather <location>", "", "", "")>>]
                    ELSE [h EXCEPT !.spawn =
                            <<known(Coords(w[1].lat, w[1].lon))>>]
       ELSE LET loc == IF dbOk THEN DbCheckLocation(locations, l) ELSE None
            IN IF loc # None
               THEN [h EXCEPT
                       !.loop = "send",
                       !.wait = Some([msg |-> UpdateWeather(msg.source,
                                                 loc[1].lat, loc[1].lon),
                                      spawn |-> <<known(Coords(loc[1].lat,
                                                               loc[1].lon))>>])]
               ELSE [h EXCEPT !.spawn = <<geo>>,
                              !.printed = IF dbOk THEN {}
                                          ELSE {"Error checking location: {}"}]

\* Task::Location(l); dbOk is the result of db.check_location
LocationCmd(msg, h, dbOk) ==
    IF ~dbOk
    THEN [h EXCEPT !.printed = {"Error fetching location from database: {}"}]
    ELSE LET loc == DbCheckLocation(locations, msg.content.a)
         IN IF loc # None
            THEN [h EXCEPT !.out = <<MapLink(loc[1])>>]
            ELSE [h EXCEPT !.spawn =
                    <<Task("location", msg.ev, msg.target, "", msg.content.a,
                           NoCoords, "", "")>>]

\* Task::Coins(c, t)
CoinsCmd(msg, h) ==
    [h EXCEPT !.spawn = <<Task("coins", msg.ev, msg.target, "", "", NoCoords,
                               Pair(msg.content.a), msg.content.b)>>]

\* Task::Lastfm(n): get_lastfm_scrobble(..).await inside the handler
LastfmCmd(msg, h) ==
    [h EXCEPT !.loop = "lastfm",
              !.wait = Some([target |-> msg.target, user |-> msg.content.a,
                             ev |-> msg.ev])]

\* the channel the game is played in
Games == "#games"

\* the word HangStart sends when no length is asked for
StartToken == <<"<", "s", "t", "a", "r", "t", ">">>

\* a letter said in the game channel that is not sent on
HangCmdNotForwarded(msg, h) == h

\* Task::Hang(l) if msg.target == "#games"
HangCmd(msg, h) ==
    IF msg.target # Games THEN h
    ELSE [h EXCEPT !.loop = "send",
                   !.wait = Some([msg |-> Hang(msg.target, msg.content.a,
                                               By("Hang", msg.ev)),
                                  spawn |-> <<>>])]

\* a word said in the game channel that is not sent on
HangGuessCmdNotForwarded(msg, h) == h

\* Task::HangGuess(w) if msg.target == "#games"
HangGuessCmd(msg, h) ==
    IF msg.target # Games THEN h
    ELSE [h EXCEPT !.loop = "send",
                   !.wait = Some([msg |-> HangGuess(msg.target, msg.content.a,
                                                    By("HangGuess", msg.ev)),
                                  spawn |-> <<>>])]

\* HangStartCmd sending the empty length as it is
HangStartCmdNoSentinel(msg, h) ==
    IF msg.target # Games THEN h
    ELSE [h EXCEPT !.loop = "send",
                   !.wait = Some([msg |-> HangGuess(msg.target, msg.content.a,
                                                    By("HangStart", msg.ev)),
                                  spawn |-> <<>>])]

\* Task::HangStart(l) if msg.target == "#games"
HangStartCmd(msg, h) ==
    IF msg.target # Games THEN h
    ELSE LET target == IF Len(msg.content.a) = 0 THEN StartToken
                       ELSE msg.content.a
         IN [h EXCEPT !.loop = "send",
                      !.wait = Some([msg |-> HangGuess(msg.target, target,
                                                       By("HangStart", msg.ev)),
                                     spawn |-> <<>>])]

\* the results the one store call of a handler can have; a handler that
\* makes none is given TRUE
StoreResults(content) ==
    IF content.task \in {"Seen", "Tell", "Weather", "Location"}
    THEN BOOLEAN ELSE {TRUE}

\* `match command` of process_messages
Command(msg, tbl, dbOk) ==
    LET h == Handled(tbl)
        t == msg.content.task
    IN CASE t = "Nn" -> NnCmd(msg, h)
         [] t = "Message" -> MessageCmd(msg, h)
         [] t = "Seen" -> SeenCmd(msg, h, dbOk)
         [] t = "Tell" -> TellCmd(msg, h, dbOk)
         [] t = "Weather" -> WeatherCmd(msg, h, dbOk)
         [] t = "Location" -> LocationCmd(msg, h, dbOk)
         [] t = "Coins" -> CoinsCmd(msg, h)
         [] t = "Lastfm" -> LastfmCmd(msg, h)
         [] t = "Hang" -> HangCmd(msg, h)
         [] t = "HangGuess" -> HangGuessCmd(msg, h)
         [] t = "HangStart" -> HangStartCmd(msg, h)
         [] OTHER -> h


\* ------------------------------------------------------------ inputs
\* who speaks where
Senders ==
    {[source |-> "alice", target |-> "#chan"],
     [source |-> "Bob", target |-> "#games"]}

\* a message text, given by what process_commands makes of it
Content(task, a, b) == [task |-> task, a |-> a, b |-> b]

SyncContents ==
    {Content("Ignore", "", ""), Content("Nn", OwnNick, ""),
     Content("Message", "https://github.com/niall-/boot", ""),
     Content("Seen", "bob", ""), Content("Tell", "bob", "hi")}

TaskContents ==
    {Content("Weather", "", ""), Content("Weather", "Berlin", ""),
     Content("Location", "berlin", ""), Content("Coins", "btc", "1d"),
     Content("Lastfm", "bob", "")}

CoinContents == {Content("Coins", "btc", "1d"), Content("Location", "berlin", "")}

\* weather for a place
WeatherContents == {Content("Weather", "Berlin", "")}

\* the map link of a place under two spellings
LocationContents ==
    {Content("Location", "berlin", ""), Content("Location", "Berlin", "")}

\* one user under two spellings of the nick
CaseSenders ==
    {[source |-> "Bob", target |-> "#games"],
     [source |-> "bob", target |-> "#games"]}

Contents == SyncContents \cup TaskContents

\* what the exchange can answer to one OHLC + ticker request
Quotes == {"q1"}

\* ------------------------------------------------------------ run_bot
\* run_bot / process_message: the transport hands over a PRIVMSG and the
\* message is sent to the loop
RunBotMessageFrom(S, C, max) ==
    /\ LoopAlive
    /\ events < max
    /\ Len(queue) < QueueCap
    /\ \E s \in S, c \in C :
         queue' = Append(queue, Msg(s.source, s.target, c, events + 1))
    /\ events' = events + 1
    /\ UNCHANGED <<loop, wait, apiKey, command, call, hangman, store, sink, tasks, printed>>

RunBotMessage(C, max) == RunBotMessageFrom(Senders, C, max)

\* privmsg(): the Seen entry of the speaker
RunBotSeenFrom(S, max) ==
    /\ LoopAlive
    /\ events < max
    /\ Len(queue) < QueueCap
    /\ \E s \in S :
         queue' = Append(queue,
                    [kind |-> "Seen",
                     e |-> [username |-> s.source, message |-> "saying: hi",
                            time |-> events + 1]])
    /\ events' = events + 1
    /\ UNCHANGED <<loop, wait, apiKey, command, call, hangman, store, sink, tasks, printed>>

RunBotSeen(max) == RunBotSeenFrom(Senders, max)

\* privmsg(): the urls found in a channel message
RunBotLinks(max) ==
    /\ LoopAlive
    /\ events < max
    /\ Len(queue) < QueueCap
    /\ \E s \in Senders :
         queue' = Append(queue,
                    [kind |-> "Links",
                     u |-> <<[target |-> s.target, url |-> "http://a"]>>])
    /\ events' = events + 1
    /\ UNCHANGED <<loop, wait, apiKey, command, call, hangman, store, sink, tasks, printed>>

\* a QUIT seen on the connection
RunBotQuit(max) ==
    /\ LoopAlive
    /\ events < max
    /\ Len(queue) < QueueCap
    /\ \E t \in {OwnNick, "alice"} :
         queue' = Append(queue, [kind |-> "Quit", t |-> t, m |-> "bye"])
    /\ events' = events + 1
    /\ UNCHANGED <<loop, wait, apiKey, command, call, hangman, store, sink, tasks, printed>>

\* ------------------------------------------------------------ main loop
\* BotCommand::Quit(t, m)
LoopQuit ==
    /\ CanRecv
    /\ Head(queue).kind = "Quit"
    /\ queue' = Tail(queue)
    /\ loop' = IF Head(queue).t = OwnNick THEN "quit" ELSE "recv"
    /\ UNCHANGED <<wait, apiKey, command, call, hangman, store, sink, tasks, printed, events>>

\* BotCommand::Privmsg(m) => client.send_privmsg(m.0, m.1).unwrap()
LoopPrivmsg ==
    /\ CanRecv
    /\ Head(queue).kind = "Privmsg"
    /\ queue' = Tail(queue)
    /\ \E ok \in BOOLEAN :
         /\ sink' = Append(sink, Line(Head(queue).target, Head(queue).text,
                                      Head(queue).by, ok))
         /\ loop' = IF ok THEN "recv" ELSE "panicked"
    /\ UNCHANGED <<wait, apiKey, command, call, hangman, store, tasks, printed, events>>

\* BotCommand::Links(u): spawn process_titles
LoopLinks ==
    /\ CanRecv
    /\ Head(queue).kind = "Links"
    /\ queue' = Tail(queue)
    /\ tasks' = Append(tasks,
                  Task("titles", 0, Head(queue).u[1].target, "", "", NoCoords,
                       Head(queue).u[1].url, ""))
    /\ UNCHANGED <<loop, wait, apiKey, command, call, hangman, store, sink, printed, events>>

\* BotCommand::Seen(e): db.add_seen, an error is printed
LoopSeen ==
    /\ CanRecv
    /\ Head(queue).kind = "Seen"
    /\ queue' = Tail(queue)
    /\ \E ok \in BOOLEAN :
         /\ seen' = IF ok THEN DbAddSeen(seen, Head(queue).e) ELSE seen
         /\ printed' = IF ok THEN printed
                       ELSE printed \cup {Printed("SQL error adding seen: {}", 0)}
    /\ UNCHANGED <<loop, wait, apiKey, command, call, hangman, notifications, nextId, locations,
                   weather, coins, sink, tasks, events>>

\* BotCommand::UpdateWeather(user, lat, lon): db.add_weather
LoopUpdateWeather ==
    /\ CanRecv
    /\ Head(queue).kind = "UpdateWeather"
    /\ queue' = Tail(queue)
    /\ \E ok \in BOOLEAN :
         /\ weather' = IF ok
                       THEN DbAddWeather(weather, Head(queue).user,
                                         Head(queue).lat, Head(queue).lon)
                       ELSE weather
         /\ printed' = IF ok THEN printed
                       ELSE printed \cup
                            {Printed("SQL error updating weather: {}", 0)}
    /\ UNCHANGED <<loop, wait, apiKey, command, call, hangman, notifications, nextId, seen, locations,
                   coins, sink, tasks, events>>

\* BotCommand::UpdateLocation(loc, e): db.add_location
LoopUpdateLocation ==
    /\ CanRecv
    /\ Head(queue).kind = "UpdateLocation"
    /\ queue' = Tail(queue)
    /\ \E ok \in BOOLEAN :
         LET stored == ok /\ ~DbAddLocationConflict(locations, Head(queue).loc)
         IN /\ locations' =
                 IF stored
                 THEN DbAddLocation(locations, Head(queue).loc, Head(queue).e)
                 ELSE locations
            /\ printed' = IF stored THEN printed
                          ELSE printed \cup
                               {Printed("SQL error updating location: {}", 0)}
    /\ UNCHANGED <<loop, wait, apiKey, command, call, hangman, notifications, nextId, seen, weather,
                   coins, sink, tasks, events>>

\* the lines of one handler as calls of client.send_privmsg(..).unwrap():
\* the first `up` calls return Ok, the next one (if any) returns Err
Calls(target, lines, up) ==
    [i \in 1..Min(Len(lines), up + 1) |->
        Line(target, lines[i].text, lines[i].by, i <= up)]

\* BotCommand::Message(msg): process_messages(msg, db, client, ..)
LoopMessage ==
    /\ CanRecv
    /\ Head(queue).kind = "Message"
    /\ queue' = Tail(queue)
    /\ \E lookupOk \in BOOLEAN,
          rmOk \in [1..Removals(notifications, Head(queue).source) -> BOOLEAN],
          dbOk \in StoreResults(Head(queue).content) :
         LET msg == Head(queue)
             cn == CheckNotification(notifications, msg.source, lookupOk, rmOk)
             nlines == [i \in 1..Len(cn.lines) |->
                          [text |-> cn.lines[i], by |-> By("notify", cn.ids[i])]]
             h == Command(msg, cn.tbl, dbOk)
             clines == [i \in 1..Len(h.out) |->
                          [text |-> h.out[i], by |-> By("cmd", msg.ev)]]
             lines == nlines \o clines
         IN \E up \in 0..Len(lines) :
              /\ sink' = sink \o Calls(msg.target, lines, up)
              /\ IF up < Len(nlines)
                 THEN \* a notification could not be sent: unwrap panics
                      /\ loop' = "panicked"
                      /\ notifications' = cn.tbl
                      /\ printed' = printed \cup
                                    {Printed(w, msg.ev) : w \in cn.printed}
                      /\ UNCHANGED <<wait, nextId, tasks>>
                 ELSE IF up < Len(lines)
                 THEN \* the reply could not be sent: unwrap panics
                      /\ loop' = "panicked"
                      /\ notifications' = h.notif
                      /\ nextId' = h.nextId
                      /\ printed' = printed \cup
                            {Printed(w, msg.ev) : w \in cn.printed \cup h.printed}
                      /\ UNCHANGED <<wait, tasks>>
                 ELSE /\ loop' = h.loop
                      /\ wait' = h.wait
                      /\ notifications' = h.notif
                      /\ nextId' = h.nextId
                      /\ printed' = printed \cup
                            {Printed(w, msg.ev) : w \in cn.printed \cup h.printed}
                      /\ tasks' = tasks \o h.spawn
    /\ UNCHANGED <<apiKey, command, call, hangman, seen, locations, weather, coins, events>>

\* Task::Weather, location cached: tx2.send(Bot::UpdateWeather(..)).await on
\* the loop's own queue, then the weather task is spawned
LoopSend ==
    /\ loop = "send"
    /\ Len(queue) < QueueCap
    /\ queue' = Append(queue, wait[1].msg)
    /\ tasks' = tasks \o wait[1].spawn
    /\ loop' = "recv"
    /\ wait' = None
    /\ UNCHANGED <<apiKey, command, call, hangman, store, sink, printed, events>>

\* Task::Lastfm: the scrape returns and its line (or its error) is sent
LoopLastfm ==
    /\ loop = "lastfm"
    /\ \E found \in BOOLEAN, ok \in BOOLEAN :
         /\ sink' = Append(sink,
                      Line(wait[1].target,
                           IF found
                           THEN Text("{} last played {} by {} {}",
                                     wait[1].user, "", "")
                           ELSE Text("No song data found!", "", "", ""),
                           By("cmd", wait[1].ev), ok))
         /\ loop' = IF ok THEN "recv" ELSE "panicked"
    /\ wait' = None
    /\ UNCHANGED <<queue, apiKey, command, call, hangman, store, tasks, printed, events>>


\* ------------------------------------------------------------ hangman
\* the word list
Words ==
    {<<"c", "a", "t">>, <<"h", "o", "u", "s", "e">>,
     <<"a", "d", "v", "e", "n", "t", "u", "r", "e">>,
     <<"c", "a", "t", "'", "s">>}

\* possessive forms are left out
Possessive(w) == Len(w) > 1 /\ SubSeq(w, Len(w) - 1, Len(w)) = <<"'", "s">>

\* the words of a length class; no class asked for means medium
WordList(d) ==
    {w \in Words :
        /\ ~Possessive(w)
        /\ IF d = <<"s", "h", "o", "r", "t">> THEN Len(w) < 6
           ELSE IF d = <<"l", "o", "n", "g">> THEN Len(w) > 8
           ELSE Len(w) >= 4 /\ Len(w) <= 8}

\* the HangGuess words that stand for HangStart, and the class they ask for
StartTokens == {StartToken, <<"s", "h", "o", "r", "t">>, <<"m", "e", "d", "i", "u", "m">>, <<"l", "o", "n", "g">>}
Difficulty(token) == IF token = StartToken THEN <<>> ELSE token

\* a fresh game: all letters hidden, 0 attempts
NewGame(word) ==
    [started |-> TRUE, word |-> word,
     pattern |-> [i \in 1..Len(word) |-> "_"], wrong |-> {}, attempts |-> 0]

\* all matching positions revealed
Reveal(g, letter) ==
    [i \in 1..Len(g.word) |->
        IF g.word[i] = letter THEN letter ELSE g.pattern[i]]

\* what the session emits
AlreadyInProgress == Text("A game is already in progress!", "", "", "")
StateLine(g) == Text("{} attempts: {} guessed: {}", g.pattern, g.attempts,
                     g.wrong)
WinLine(g) == Text("won: {}", g.word, "", "")
LossLine(g) == Text("lost, the word was {}", g.word, "", "")

\* HangStart(difficulty), `word` being the word picked
HangStarted(g, word) ==
    IF g.started
    THEN [game |-> g, out |-> <<AlreadyInProgress>>]
    ELSE [game |-> NewGame(word), out |-> <<StateLine(NewGame(word))>>]

\* HangGuess(token)
HangGuessed(g, token) ==
    IF ~g.started THEN [game |-> g, out |-> <<>>]
    ELSE IF token = g.word THEN [game |-> NoGame, out |-> <<WinLine(g)>>]
    ELSE LET inWord == /\ Len(token) = 1
                       /\ \E i \in 1..Len(g.word) : g.word[i] = token[1]
             known == \/ token \in g.wrong
                      \/ /\ Len(token) = 1
                         /\ \E i \in 1..Len(g.word) : g.pattern[i] = token[1]
             missed == [g EXCEPT !.wrong = @ \cup {token},
                                 !.attempts = @ + 1]
             hit == [g EXCEPT !.pattern = Reveal(g, token[1])]
         IN IF known THEN [game |-> g, out |-> <<StateLine(g)>>]
            ELSE IF ~inWord
            THEN IF missed.attempts >= MaxAttempts
                 THEN [game |-> NoGame, out |-> <<LossLine(g)>>]
                 ELSE [game |-> missed, out |-> <<StateLine(missed)>>]
            ELSE IF hit.pattern = hit.word
            THEN [game |-> NoGame, out |-> <<WinLine(g)>>]
            ELSE [game |-> hit, out |-> <<StateLine(hit)>>]

\* the loop applies a result to the session and emits its line
HangEmit(r) ==
    /\ queue' = Tail(queue)
    /\ hangman' = r.game
    /\ IF r.out = <<>>
       THEN UNCHANGED <<sink, loop>>
       ELSE \E ok \in BOOLEAN :
              /\ sink' = Append(sink, Line(Head(queue).target, r.out[1],
                                           Head(queue).by, ok))
              /\ loop' = IF ok THEN "recv" ELSE "panicked"
    /\ UNCHANGED <<wait, apiKey, command, call, store, tasks, printed, events>>

\* Bot::Hang(target, letter): a letter is guessed
LoopHang ==
    /\ CanRecv
    /\ Head(queue).kind = "Hang"
    /\ HangEmit(HangGuessed(hangman, Head(queue).token))

\* Bot::HangGuess(target, word): a game is started or a word is guessed
LoopHangGuess ==
    /\ CanRecv
    /\ Head(queue).kind = "HangGuess"
    /\ IF Head(queue).token \in StartTokens
       THEN \E word \in WordList(Difficulty(Head(queue).token)) :
              HangEmit(HangStarted(hangman, word))
       ELSE HangEmit(HangGuessed(hangman, Head(queue).token))


\* ------------------------------------------------------------ tasks
\* a task that has `out` to send and then goes on at `then`
Sending(t, out, then) == [t EXCEPT !.pc = "send", !.out = out, !.then = then]

\* a task whose block has returned
Done(t) == [t EXCEPT !.pc = "done"]

\* what a fetcher can return to a task
Results(t) ==
    CASE t.kind \in {"geoweather", "location"} -> {"some", "none", "err"}
      [] t.kind = "coins" -> Quotes \cup {"err"}
      [] OTHER -> {"ok", "err"}

\* the spawned block of Task::Weather with known coords, and the second
\* half of the block without: get_weather(coords, key) returned r
WeatherTask(t, i, r) ==
    IF r = "ok"
    THEN Sending(t, <<Privmsg(t.target, PrintWeather(t.coords), By("task", i))>>,
                 "done")
    ELSE Done(t)

\* GeoWeatherTask without the `return` after "Unable to fetch location"
GeoWeatherTaskNoReturn(t, i, r) ==
    LET l == Geocode(t.location)
    IN CASE r = "some" ->
              Sending([t EXCEPT !.coords = Coords(l.lat, l.lon)],
                      <<UpdateWeather(t.source, l.lat, l.lon),
                        UpdateLocation(t.location, l)>>, "fetch2")
         [] r = "none" ->
              Sending(t, <<Privmsg(t.target,
                                   Text("Unable to fetch location for {}",
                                        t.location, "", ""),
                                   By("task", i))>>, "fetch2")
         [] OTHER -> Done(t)

\* GeoWeatherTask storing the location but not the user's preference
GeoWeatherTaskNoPreference(t, i, r) ==
    LET l == Geocode(t.location)
    IN CASE r = "some" ->
              Sending([t EXCEPT !.coords = Coords(l.lat, l.lon)],
                      <<UpdateLocation(t.location, l)>>, "fetch2")
         [] r = "none" ->
              Sending(t, <<Privmsg(t.target,
                                   Text("Unable to fetch location for {}",
                                        t.location, "", ""),
                                   By("task", i))>>, "done")
         [] OTHER -> Done(t)

\* GeoWeatherTask keying the preference by the channel instead of the user
GeoWeatherTaskKeyedByTarget(t, i, r) ==
    LET l == Geocode(t.location)
    IN CASE r = "some" ->
              Sending([t EXCEPT !.coords = Coords(l.lat, l.lon)],
                      <<UpdateWeather(t.target, l.lat, l.lon),
                        UpdateLocation(t.location, l)>>, "fetch2")
         [] r = "none" ->
              Sending(t, <<Privmsg(t.target,
                                   Text("Unable to fetch location for {}",
                                        t.location, "", ""),
                                   By("task", i))>>, "done")
         [] OTHER -> Done(t)

\* the spawned block of Task::Weather without coords: get_location returned r
GeoWeatherTask(t, i, r) ==
    LET l == Geocode(t.location)
    IN CASE r = "some" ->
              Sending([t EXCEPT !.coords = Coords(l.lat, l.lon)],
                      <<UpdateWeather(t.source, l.lat, l.lon),
                        UpdateLocation(t.location, l)>>, "fetch2")
         [] r = "none" ->
              Sending(t, <<Privmsg(t.target,
                                   Text("Unable to fetch location for {}",
                                        t.location, "", ""),
                                   By("task", i))>>, "done")
         [] OTHER -> Done(t)

\* LocationTask also reporting the coordinates as the weather preference,
\* as the geocoding block of Task::Weather does
LocationTaskSetsWeather(t, i, r) ==
    LET l == Geocode(t.location)
    IN CASE r = "some" ->
              Sending(t, <<UpdateWeather(t.source, l.lat, l.lon),
                           UpdateLocation(t.location, l),
                           Privmsg(t.target, MapLink(l), By("task", i))>>,
                      "done")
         [] r = "none" ->
              Sending(t, <<Privmsg(t.target,
                                   Text("Unable to fetch location data for {}",
                                        t.location, "", ""),
                                   By("task", i))>>, "done")
         [] OTHER -> Done(t)

\* the spawned block of Task::Location: get_location returned r
LocationTask(t, i, r) ==
    LET l == Geocode(t.location)
    IN CASE r = "some" ->
              Sending(t, <<UpdateLocation(t.location, l),
                           Privmsg(t.target, MapLink(l), By("task", i))>>,
                      "done")
         [] r = "none" ->
              Sending(t, <<Privmsg(t.target,
                                   Text("Unable to fetch location data for {}",
                                        t.location, "", ""),
                                   By("task", i))>>, "done")
         [] OTHER -> Done(t)

\* CoinsTask sending data_1 before data_0
CoinsTaskStatsFirst(t, i, r) ==
    IF r = "err" THEN Done(t)
    ELSE LET c == GetCoins(t.a, t.b, r)
         IN Sending(t, <<Privmsg(t.target, c.data_1, By("task", i)),
                         Privmsg(t.target, c.data_0, By("task", i))>>, "done")

\* the spawned block of Task::Coins: get_coins returned r
CoinsTask(t, i, r) ==
    IF r = "err" THEN Done(t)
    ELSE LET c == GetCoins(t.a, t.b, r)
         IN Sending(t, <<Privmsg(t.target, c.data_0, By("task", i)),
                         Privmsg(t.target, c.data_1, By("task", i))>>, "done")

\* the task of BotCommand::Links: process_titles returned the titles found
TitlesTask(t, i, r) ==
    IF r = "ok"
    THEN Sending(t, <<Privmsg(t.target, Text("\\u21b3 {}", t.a, "", ""),
                              By("task", i))>>, "done")
    ELSE Done(t)

\* the first fetch of task i returns
TaskFetch(i) ==
    /\ LoopAlive
    /\ tasks[i].pc = "fetch"
    /\ \E r \in Results(tasks[i]) :
         LET t == [tasks[i] EXCEPT !.res = r]
         IN tasks' = [tasks EXCEPT ![i] =
               CASE t.kind = "weather" -> WeatherTask(t, i, r)
                 [] t.kind = "geoweather" -> GeoWeatherTask(t, i, r)
                 [] t.kind = "location" -> LocationTask(t, i, r)
                 [] t.kind = "coins" -> CoinsTask(t, i, r)
                 [] OTHER -> TitlesTask(t, i, r)]
    /\ UNCHANGED <<queue, loop, wait, apiKey, command, call, hangman, store, sink, printed, events>>

\* get_weather of a task that had to geocode first returns
TaskFetchWeather(i) ==
    /\ LoopAlive
    /\ tasks[i].pc = "fetch2"
    /\ \E r \in {"ok", "err"} :
         tasks' = [tasks EXCEPT ![i] = WeatherTask(tasks[i], i, r)]
    /\ UNCHANGED <<queue, loop, wait, apiKey, command, call, hangman, store, sink, printed, events>>

\* TaskSend with the blocks sending in the order they were spawned
TaskSendInOrder(i) ==
    /\ LoopAlive
    /\ tasks[i].pc = "send"
    /\ \A k \in 1..(i - 1) : tasks[k].pc = "done"
    /\ Len(queue) < QueueCap
    /\ queue' = Append(queue, Head(tasks[i].out))
    /\ tasks' = [tasks EXCEPT ![i] =
                   IF Tail(tasks[i].out) = <<>>
                   THEN [tasks[i] EXCEPT !.out = <<>>, !.pc = tasks[i].then]
                   ELSE [tasks[i] EXCEPT !.out = Tail(tasks[i].out)]]
    /\ UNCHANGED <<loop, wait, apiKey, command, call, hangman, store, sink, printed, events>>

\* tx2.send(..).await of task i: one message enters the queue
TaskSend(i) ==
    /\ LoopAlive
    /\ tasks[i].pc = "send"
    /\ Len(queue) < QueueCap
    /\ queue' = Append(queue, Head(tasks[i].out))
    /\ tasks' = [tasks EXCEPT ![i] =
                   IF Tail(tasks[i].out) = <<>>
                   THEN [tasks[i] EXCEPT !.out = <<>>, !.pc = tasks[i].then]
                   ELSE [tasks[i] EXCEPT !.out = Tail(tasks[i].out)]]
    /\ UNCHANGED <<loop, wait, apiKey, command, call, hangman, store, sink, printed, events>>

\* ------------------------------------------------------ process_commands
\* A token is the sequence of its characters; a message text is the
\* sequence of tokens str::split_whitespace yields.

UpperCase ==
    <<"A", "B", "C", "D", "E", "F", "G", "H", "I", "J", "K", "L", "M",
      "N", "O", "P", "Q", "R", "S", "T", "U", "V", "W", "X", "Y", "Z">>
LowerCase ==
    <<"a", "b", "c", "d", "e", "f", "g", "h", "i", "j", "k", "l", "m",
      "n", "o", "p", "q", "r", "s", "t", "u", "v", "w", "x", "y", "z">>

\* char::to_lowercase / str::to_lowercase on ASCII
LowerChar(c) ==
    IF \E i \in 1..26 : UpperCase[i] = c
    THEN LowerCase[CHOOSE i \in 1..26 : UpperCase[i] = c]
    ELSE c
ToLowercase(t) == [i \in 1..Len(t) |-> LowerChar(t[i])]

\* str::eq_ignore_ascii_case
EqIgnoreAsciiCase(a, b) == ToLowercase(a) = ToLowercase(b)

\* str::starts_with, str::strip_prefix (of a prefix that is there)
StartsWith(t, p) == Len(t) >= Len(p) /\ SubSeq(t, 1, Len(p)) = p
StripPrefix(t, p) == SubSeq(t, Len(p) + 1, Len(t))

\* tokens.remainder(), trimmed: the tokens left, a blank between them
RECURSIVE Remainder(_)
Remainder(toks) ==
    IF toks = <<>> THEN <<>>
    ELSE IF Len(toks) = 1 THEN toks[1]
    ELSE toks[1] \o <<" ">> \o Remainder(Tail(toks))

\* the words process_commands compares with and returns, spelt out
Spelt ==
    [help |-> <<"h", "e", "l", "p">>,
     seen |-> <<"s", "e", "e", "n">>,
     tell |-> <<"t", "e", "l", "l">>,
     weather |-> <<"w", "e", "a", "t", "h", "e", "r">>,
     lastfm |-> <<"l", "a", "s", "t", "f", "m">>,
     hang |-> <<"h", "a", "n", "g">>,
     short |-> <<"s", "h", "o", "r", "t">>,
     medium |-> <<"m", "e", "d", "i", "u", "m">>,
     long |-> <<"l", "o", "n", "g">>,
     year |-> <<"y", "e", "a", "r">>,
     d1 |-> <<"1", "d">>,
     d7 |-> <<"7", "d">>,
     d14 |-> <<"1", "4", "d">>,
     d31 |-> <<"3", "1", "d">>,
     y1 |-> <<"1", "y">>,
     y3 |-> <<"3", "y">>,
     y5 |-> <<"5", "y">>]

\* the fixed replies of Task::Message
Reply ==
    [help |-> <<"Commands: repo | seen <nick> | tell <nick> <message> | ..">>,
     repo |-> <<"https://github.com/niall-/boot">>,
     seen |-> <<"Hint: seen <nick>">>,
     tell |-> <<"Hint: tell <nick> <message>">>,
     loc |-> <<"Hint: loc|location <location>">>,
     lastfm |-> <<"noob">>]

\* the words of the command table
HelpWords == {Spelt.help, <<"m", "a", "n">>, <<"m", "a", "n", "u", "a", "l">>}
RepoWords == {<<"r", "e", "p", "o">>, <<"g", "i", "t">>}
LocWords == {<<"l", "o", "c">>, <<"l", "o", "c", "a", "t", "i", "o", "n">>}

\* let coins = [..]
CoinWords ==
    {<<"b", "t", "c">>, <<"b", "i", "t", "c", "o", "i", "n">>,
     <<"b", "t", "c", "g", "b", "p">>, <<"e", "t", "h">>,
     <<"e", "t", "h", "e", "r", "e", "u", "m">>, <<"l", "t", "c">>,
     <<"x", "m", "r">>, <<"m", "o", "n", "e", "r", "o">>,
     <<"d", "o", "g", "e">>, <<"c", "o", "i", "n", "s">>,
     <<"s", "h", "i", "t", "c", "o", "i", "n", "s">>}

\* `match n.to_lowercase().as_ref()`: its arms
WeekWords ==
    {Spelt.d7, <<"w">>, <<"1", "w">>, <<"w", "e", "e", "k">>,
     <<"w", "e", "e", "k", "l", "y">>}
FortnightWords ==
    {Spelt.d14, <<"2", "w">>, <<"f", "o", "r", "t", "n", "i", "g", "h", "t">>,
     <<"f", "o", "r", "t", "n", "i", "g", "h", "t", "l", "y">>}
MonthWords == {Spelt.d31, <<"3", "0", "d">>, <<"m", "o", "n", "t", "h">>}

\* let coin_times = [..]
CoinTimes ==
    {Spelt.d1, <<"d", "a", "y">>, <<"2", "4", "h">>}
    \cup WeekWords \cup FortnightWords \cup MonthWords
    \cup {Spelt.year, Spelt.y1, Spelt.y3, Spelt.y5, <<"s", "p", "o", "t">>}

\* `bot_prefix = match n { .. }`: the sub-command, if the bot is addressed
BotPrefix(nick, msg) ==
    IF msg = <<>> THEN None
    ELSE LET n == msg[1]
         IN IF StartsWith(n, <<".", "/">>)
            THEN Some(StripPrefix(n, <<".", "/">>))
            ELSE IF StartsWith(n, <<".">>) /\ Len(n) > 1
            THEN Some(StripPrefix(n, <<".">>))
            ELSE IF StartsWith(n, <<"!">>) /\ Len(n) > 1
            THEN Some(StripPrefix(n, <<"!">>))
            ELSE IF StartsWith(ToLowercase(n), nick)
            THEN IF Len(msg) > 1 THEN Some(msg[2]) ELSE Some(Spelt.help)
            ELSE None

\* the name arm leaving the sub-command in the iterator
AfterPrefixKeepsSubCommand(nick, msg) == Tail(msg)

\* the tokens the iterator still holds once bot_prefix is set
AfterPrefix(nick, msg) ==
    LET n == msg[1]
    IN IF \/ StartsWith(n, <<".", "/">>)
          \/ StartsWith(n, <<".">>) /\ Len(n) > 1
          \/ StartsWith(n, <<"!">>) /\ Len(n) > 1
       THEN Tail(msg)
       ELSE SubSeq(msg, 3, Len(msg))

\* the block `if bot_prefix.is_none() { return match next { .. } }`
Unaddressed(msg) ==
    IF Len(msg) = 1
    THEN LET t == msg[1]
             letter == /\ Len(t) = 1
                       /\ \E i \in 1..26 : LowerCase[i] = t[1]
         IN IF letter
            THEN Content("Hang", t, <<>>)
            ELSE Content("HangGuess", t, <<>>)
    ELSE Content("Ignore", <<>>, <<>>)

\* coin_time with "1y" read as one year
CoinTimeOneYear(rest) ==
    IF rest # <<>> /\ \E e \in CoinTimes : EqIgnoreAsciiCase(e, rest[1])
    THEN LET n == ToLowercase(rest[1])
         IN IF n \in WeekWords THEN Spelt.d7
            ELSE IF n \in FortnightWords THEN Spelt.d14
            ELSE IF n \in MonthWords THEN Spelt.d31
            ELSE IF n \in {Spelt.year, Spelt.y1} THEN Spelt.y1
            ELSE IF n = Spelt.y3 THEN Spelt.y3
            ELSE IF n = Spelt.y5 THEN Spelt.y5
            ELSE Spelt.d1
    ELSE Spelt.d1

\* `let coin_time = match tokens.next() { .. }`
CoinTime(rest) ==
    IF rest # <<>> /\ \E e \in CoinTimes : EqIgnoreAsciiCase(e, rest[1])
    THEN LET n == ToLowercase(rest[1])
         IN IF n \in WeekWords THEN Spelt.d7
            ELSE IF n \in FortnightWords THEN Spelt.d14
            ELSE IF n \in MonthWords THEN Spelt.d31
            ELSE IF n = Spelt.year THEN Spelt.y1
            ELSE IF n = Spelt.y3 THEN Spelt.y3
            ELSE IF n = Spelt.y5 THEN Spelt.y5
            ELSE Spelt.d1
    ELSE Spelt.d1

\* `"hang" => match tokens.next() { .. }`
HangLength(rest) ==
    IF rest = <<>> THEN <<>>
    ELSE LET l == ToLowercase(rest[1])
         IN IF l \in {Spelt.short, Spelt.medium, Spelt.long} THEN l ELSE <<>>

\* `match bot_prefix.unwrap() { .. }`
Addressed(c, rest) ==
    IF c \in HelpWords THEN Content("Message", Reply.help, <<>>)
    ELSE IF c \in RepoWords THEN Content("Message", Reply.repo, <<>>)
    ELSE IF c = Spelt.seen
    THEN IF rest # <<>> /\ rest[1] # <<>>
         THEN Content("Seen", rest[1], <<>>)
         ELSE Content("Message", Reply.seen, <<>>)
    ELSE IF c = Spelt.tell
    THEN IF Len(rest) > 1
         THEN Content("Tell", rest[1], Remainder(Tail(rest)))
         ELSE Content("Message", Reply.tell, <<>>)
    ELSE IF c = Spelt.weather THEN Content("Weather", Remainder(rest), <<>>)
    ELSE IF c \in LocWords
    THEN IF rest # <<>>
         THEN Content("Location", Remainder(rest), <<>>)
         ELSE Content("Message", Reply.loc, <<>>)
    ELSE IF c \in CoinWords THEN Content("Coins", c, CoinTime(rest))
    ELSE IF c = Spelt.lastfm
    THEN IF rest # <<>>
         THEN Content("Lastfm", rest[1], <<>>)
         ELSE Content("Message", Reply.lastfm, <<>>)
    ELSE IF c = Spelt.hang THEN Content("HangStart", HangLength(rest), <<>>)
    ELSE Content("Ignore", <<>>, <<>>)

\* enum Task
TaskNames ==
    {"Ignore", "Message", "Seen", "Tell", "Weather", "Location", "Coins",
     "Lastfm", "Hang", "HangGuess", "HangStart"}

\* the sub-commands `match bot_prefix.unwrap()` has an arm for
TableWords ==
    HelpWords \cup RepoWords \cup {Spelt.seen, Spelt.tell, Spelt.weather}
    \cup LocWords \cup CoinWords \cup {Spelt.lastfm, Spelt.hang}

\* process_commands answering an unknown sub-command with the help text
ProcessCommandsHelpDefault(nick, msg) ==
    LET p == BotPrefix(nick, msg)
    IN IF p = None THEN Unaddressed(msg)
       ELSE IF p[1] \in TableWords
       THEN Addressed(p[1], AfterPrefix(nick, msg))
       ELSE Content("Message", Reply.help, <<>>)

\* fn process_commands(nick, msg) -> Task
ProcessCommands(nick, msg) ==
    LET p == BotPrefix(nick, msg)
    IN IF p = None THEN Unaddressed(msg)
       ELSE Addressed(p[1], AfterPrefix(nick, msg))

\* the nicknames the bot runs under, as process_messages passes them:
\* client.current_nickname().to_lowercase()
Boot == <<"b", "o", "o", "t">>
Nicks == {Boot, <<"b", "o", "t">>}

\* first tokens that name the bot
Callers == {<<"b", "o", "o", "t", ":">>, <<"B", "o", "o", "t", ",">>}

\* first tokens of the command table, and some that are not in it
CmdWords ==
    {Spelt.help, <<"m", "a", "n">>, <<"r", "e", "p", "o">>, Spelt.seen,
     <<"S", "E", "E", "N">>, Spelt.tell, Spelt.weather, <<"l", "o", "c">>,
     Spelt.lastfm, Spelt.hang, <<"b", "t", "c">>, <<"B", "T", "C">>,
     <<"E", "t", "h">>, <<"d", "o", "g", "e">>, <<"x", "y", "z">>, <<>>}

\* second tokens: names, places, time frames, word lengths
ArgWords ==
    {<<"b", "o", "b">>, <<"B", "e", "r", "l", "i", "n">>,
     <<"d", "a", "y">>, <<"D", "A", "Y">>, <<"2", "4", "h">>, Spelt.d1,
     <<"w", "e", "e", "k">>, <<"W", "e", "e", "k", "l", "y">>, Spelt.d7,
     <<"w">>, <<"1", "w">>, <<"f", "o", "r", "t", "n", "i", "g", "h", "t">>,
     <<"F", "o", "r", "t", "n", "i", "g", "h", "t", "l", "y">>, Spelt.d14,
     <<"2", "w">>, <<"m", "o", "n", "t", "h">>, <<"3", "0", "d">>, Spelt.d31,
     Spelt.year, <<"Y", "E", "A", "R">>, Spelt.y1, Spelt.y3, <<"5", "Y">>,
     <<"s", "p", "o", "t">>, <<"1", "5", "m">>, Spelt.short,
     <<"S", "H", "O", "R", "T">>, Spelt.long}

\* what follows the address: a sub-command, alone or with its arguments
Cmds ==
    {<<w>> : w \in CmdWords}
    \cup {<<w, x>> : w \in CmdWords, x \in ArgWords}
    \cup {<<Spelt.tell, <<"b", "o", "b">>, <<"h", "i">>, <<"y", "o", "u">>>>,
          <<Spelt.weather, <<"N", "e", "w">>, <<"Y", "o", "r", "k">>>>}

\* message texts: addressed with "./", "." or "!", addressed by name, and
\* not addressed
Texts ==
    {<<p \o c[1]>> \o Tail(c) :
        p \in {<<".", "/">>, <<".">>, <<"!">>}, c \in Cmds}
    \cup {<<n>> \o c : n \in Callers,
                        c \in {d \in Cmds : d[1] # <<>>} \cup {<<>>}}
    \cup {<<>>, <<<<".">>>>, <<<<"!">>>>, <<<<"a">>>>, <<<<"z">>>>,
          <<<<"A">>>>, <<<<"5">>>>, <<<<"a", "b">>>>, <<Spelt.short>>,
          <<<<"a">>, <<"b">>>>, <<<<"h", "i">>, <<"b", "o", "b">>>>,
          <<Spelt.seen, <<"b", "o", "b">>>>}

\* process_messages calls process_commands(nick, msg.content); one call
\* in a behaviour, the function keeps nothing between calls
ProcessCommandsCall ==
    /\ command = None
    /\ \E nick \in Nicks, msg \in Texts :
         command' = Some([nick |-> nick, msg |-> msg,
                          task |-> ProcessCommands(nick, msg)])
    /\ UNCHANGED <<queue, loop, wait, apiKey, call, hangman, store, sink,
                   tasks, printed, events>>

\* ------------------------------------------------------------ graph
\* Prices are f32 values, given in thousandths: 1 is 0.001.

\* let ticks, the eight bars from the lowest to the full one
Ticks == <<"1/8", "2/8", "3/8", "4/8", "5/8", "6/8", "7/8", "8/8">>

\* colour_green, colour_red and colour_esc
ColourCodes(colour) ==
    IF colour THEN [green |-> "\\x0303", red |-> "\\x0304", esc |-> "\\x03"]
    ELSE [green |-> "", red |-> "", esc |-> ""]

\* format!("{}{}{}", ..): the parts that are not empty, in order
Format(parts) == SelectSeq(parts, LAMBDA x : x # "")

\* the largest price, from 0.0 on
GraphMax(prices) ==
    IF \E i \in 1..Len(prices) : prices[i] > 0
    THEN CHOOSE m \in {prices[i] : i \in 1..Len(prices)} :
            \A i \in 1..Len(prices) : prices[i] <= m
    ELSE 0

\* the smallest price above 0.0, from f32::MAX on
GraphMin(prices) ==
    IF \E i \in 1..Len(prices) : prices[i] > 0
    THEN CHOOSE m \in {prices[i] : i \in 1..Len(prices)} :
            /\ m > 0
            /\ \A i \in 1..Len(prices) : prices[i] > 0 => m <= prices[i]
    ELSE F32Max

\* ((p - min) * ratio).round() as usize, for a price above 0.001
TickOf(p, min, max) ==
    IF max = min THEN p - min
    ELSE (2 * (Len(Ticks) - 1) * (p - min) + (max - min))
            \div (2 * (max - min))

\* a bar that is green when the price has not fallen
BarGreenOnEqual(prev, p, min, max, colour) ==
    LET c == ColourCodes(colour)
        tick == Ticks[TickOf(p, min, max) + 1]
    IN IF p <= 1 THEN <<" ">>
       ELSE IF p >= prev THEN Format(<<c.green, tick, c.esc>>)
       ELSE Format(<<c.red, tick, c.esc>>)

\* what one turn of the loop pushes: prev is `initial` for the first price
\* and the price before for the others
Bar(prev, p, min, max, colour) ==
    LET c == ColourCodes(colour)
        tick == Ticks[TickOf(p, min, max) + 1]
    IN IF p <= 1 THEN <<" ">>
       ELSE IF p > prev THEN Format(<<c.green, tick, c.esc>>)
       ELSE Format(<<c.red, tick, c.esc>>)

\* fn graph(initial, prices, colour) -> String, as the strings it pushes
Graph(initial, prices, colour) ==
    [count \in 1..Len(prices) |->
        Bar(IF count = 1 THEN initial ELSE prices[count - 1], prices[count],
            GraphMin(prices), GraphMax(prices), colour)]

\* prices in thousandths: none, 0.001 and below, and above
Levels == {-1, 0, 1, 2, 8, 10, 12}

\* the price vectors, the spot price of get_coins always being in
PriceVectors == UNION {[1..n -> Levels] : n \in 1..MaxPrices}

\* one call of graph, as get_coins makes it
GraphCall ==
    /\ call = None
    /\ \E initial \in Levels, prices \in PriceVectors, colour \in BOOLEAN :
         call' = Some([fn |-> "graph", initial |-> initial,
                       prices |-> prices, colour |-> colour,
                       v |-> Graph(initial, prices, colour)])
    /\ UNCHANGED <<queue, loop, wait, apiKey, command, hangman, store, sink,
                   tasks, printed, events>>

\* ------------------------------------------------------------ get_coins
\* The statistics of get_coins over the candles and the spot price.  Prices
\* are f32 values; the model takes whole numbers from 2^23 on, where the
\* f32 values are the whole numbers that are multiples of their unit in the
\* last place.

\* the unit in the last place of the f32 values around x, for x >= 2^23
RECURSIVE Ulp(_)
Ulp(x) == IF x < TwoTo24 THEN 1 ELSE 2 * Ulp(x \div 2)

\* the f32 value nearest to a / n, ties to the even mantissa
RoundRatio(a, n) ==
    LET u == Ulp(a \div n)
        d == n * u
        k == a \div d
        r == a - k * d
    IN IF 2 * r < d THEN k * u
       ELSE IF 2 * r > d THEN (k + 1) * u
       ELSE IF k % 2 = 0 THEN k * u
       ELSE (k + 1) * u

\* a + b in f32
F32Add(a, b) == RoundRatio(a + b, 1)

\* a / (n as f32) in f32
F32Div(a, n) == RoundRatio(a, n)

\* s.parse::<f32>().unwrap_or(vwap): None is a string that does not parse
ParseOr(s, vwap) == IF s = None THEN vwap ELSE s[1]

\* the first turn of the loop, count == 0
FirstCandle(c) ==
    [initial |-> c.vwap,
     min |-> [price |-> c.vwap, count |-> 0, time |-> c.time],
     max |-> [price |-> c.vwap, count |-> 0, time |-> c.time],
     mean |-> F32Add(0, c.vwap),
     tmp |-> 0,
     prices |-> <<>>]

\* a later turn of the loop, count > 0
NextCandle(a, c, count, time_frame) ==
    LET high == ParseOr(c.high, c.vwap)
        low == ParseOr(c.low, c.vwap)
        extreme == [price |-> 0, count |-> count, time |-> c.time]
    IN [initial |-> a.initial,
        prices |-> IF time_frame # "14d" THEN Append(a.prices, c.vwap)
                   ELSE IF count % 2 = 0
                   THEN Append(a.prices, F32Add(c.vwap, a.tmp))
                   ELSE a.prices,
        tmp |-> IF time_frame # "14d" THEN a.tmp
                ELSE IF count % 2 = 0 THEN 0
                ELSE F32Add(a.tmp, c.vwap),
        max |-> IF high > a.max.price THEN [extreme EXCEPT !.price = high]
                ELSE a.max,
        min |-> IF high > a.max.price THEN a.min
                ELSE IF low < a.min.price THEN [extreme EXCEPT !.price = low]
                ELSE a.min,
        mean |-> F32Add(a.mean, c.vwap)]

\* the loop over the first n candles
RECURSIVE Candles(_, _, _)
Candles(candles, n, time_frame) ==
    IF n = 1 THEN FirstCandle(candles[1])
    ELSE NextCandle(Candles(candles, n - 1, time_frame), candles[n], n - 1,
                    time_frame)

\* statistics whose mean is divided by the number of candles alone
CoinStatsSpotNotCounted(candles, spot, spot_time, time_frame) ==
    LET a == Candles(candles, Len(candles), time_frame)
        len == Len(candles)
    IN [initial |-> a.initial,
        prices |-> Append(a.prices,
                          IF time_frame = "14d" THEN F32Add(spot, spot)
                          ELSE spot),
        max |-> IF spot > a.max.price
                THEN [price |-> spot, count |-> a.max.count,
                      time |-> spot_time]
                ELSE a.max,
        min |-> IF spot > a.max.price THEN a.min
                ELSE IF spot < a.min.price
                THEN [price |-> spot, count |-> a.min.count,
                      time |-> spot_time]
                ELSE a.min,
        mean |-> F32Div(F32Add(a.mean, spot), len)]

\* get_coins from the loop to `mean /= len as f32`: the prices to draw, the
\* extremes and the mean
CoinStats(candles, spot, spot_time, time_frame) ==
    LET a == Candles(candles, Len(candles), time_frame)
        len == Len(candles) + 1
    IN [initial |-> a.initial,
        prices |-> Append(a.prices,
                          IF time_frame = "14d" THEN F32Add(spot, spot)
                          ELSE spot),
        max |-> IF spot > a.max.price
                THEN [price |-> spot, count |-> a.max.count,
                      time |-> spot_time]
                ELSE a.max,
        min |-> IF spot > a.max.price THEN a.min
                ELSE IF spot < a.min.price
                THEN [price |-> spot, count |-> a.min.count,
                      time |-> spot_time]
                ELSE a.min,
        mean |-> F32Div(F32Add(a.mean, spot), len)]

\* prices a ticker or a candle can carry
F32Prices == {8388609, 8388610, 8388612}

\* a candle: its high and its low are strings, None one that does not
\* parse, and lie around its vwap
CandleShapes ==
    {c \in [vwap : F32Prices,
            high : {None} \cup {Some(x) : x \in F32Prices},
            low : {None} \cup {Some(x) : x \in F32Prices}] :
        /\ ParseOr(c.high, c.vwap) >= c.vwap
        /\ ParseOr(c.low, c.vwap) <= c.vwap}

\* the candles of one answer, in the order of their times; an answer with
\* no candle ends get_coins at coins.pop().unwrap()
CandleSeries ==
    {[count \in 1..Len(f) |->
        [time |-> count - 1, vwap |-> f[count].vwap, high |-> f[count].high,
         low |-> f[count].low]] :
        f \in UNION {[1..n -> CandleShapes] : n \in 1..MaxCandles}}

\* the time frames: "14d" draws one bar for two candles, the others one
StatsTimeFrames == {"1d", "14d"}

\* one call of get_coins, from the answers of the exchange on
CoinStatsCall ==
    /\ call = None
    /\ \E candles \in CandleSeries, spot \in F32Prices,
          time_frame \in StatsTimeFrames :
         call' = Some([fn |-> "get_coins", coins |-> candles, spot |-> spot,
                       time_frame |-> time_frame,
                       stats |-> CoinStats(candles, spot, Len(candles),
                                           time_frame)])
    /\ UNCHANGED <<queue, loop, wait, apiKey, command, hangman, store, sink,
                   tasks, printed, events>>

\* ------------------------------------------------------------ behaviour
\* the handlers that answer at once: no task, no fetch
NextSync ==
    \/ RunBotMessage(SyncContents, MaxEvents)
    \/ RunBotSeen(MaxEvents)
    \/ RunBotQuit(MaxEvents)
    \/ LoopQuit
    \/ LoopSeen
    \/ LoopMessage

SpecSync == Init /\ [][NextSync]_vars

\* the coin command, beside another command whose task sends two messages
NextCoins ==
    \/ RunBotMessage(CoinContents, MaxTaskEvents)
    \/ LoopPrivmsg
    \/ LoopUpdateLocation
    \/ LoopMessage
    \/ \E i \in 1..Len(tasks) : TaskFetch(i)
    \/ \E i \in 1..Len(tasks) : TaskSend(i)

SpecCoins == Init /\ [][NextCoins]_vars

\* the handlers that fetch
NextTasks ==
    \/ RunBotMessage(TaskContents, MaxTaskEvents)
    \/ RunBotLinks(MaxTaskEvents)
    \/ LoopPrivmsg
    \/ LoopLinks
    \/ LoopUpdateWeather
    \/ LoopUpdateLocation
    \/ LoopMessage
    \/ LoopSend
    \/ LoopLastfm
    \/ \E i \in 1..Len(tasks) : TaskFetch(i)
    \/ \E i \in 1..Len(tasks) : TaskFetchWeather(i)
    \/ \E i \in 1..Len(tasks) : TaskSend(i)

SpecTasks == Init /\ [][NextTasks]_vars

\* the map link of one place asked under two spellings
NextLocation ==
    \/ RunBotMessage(LocationContents, MaxTaskEvents)
    \/ LoopPrivmsg
    \/ LoopUpdateLocation
    \/ LoopMessage
    \/ \E i \in 1..Len(tasks) : TaskFetch(i)
    \/ \E i \in 1..Len(tasks) : TaskSend(i)

SpecLocation == Init /\ [][NextLocation]_vars

\* weather of a place, for two users
NextWeather ==
    \/ RunBotMessage(WeatherContents, MaxTaskEvents)
    \/ LoopPrivmsg
    \/ LoopUpdateWeather
    \/ LoopUpdateLocation
    \/ LoopMessage
    \/ LoopSend
    \/ \E i \in 1..Len(tasks) : TaskFetch(i)
    \/ \E i \in 1..Len(tasks) : TaskFetchWeather(i)
    \/ \E i \in 1..Len(tasks) : TaskSend(i)

SpecWeather == Init /\ [][NextWeather]_vars

\* the per-user tables, written for one user who changes the case of the nick
NextStore ==
    \/ RunBotMessageFrom(CaseSenders, WeatherContents, MaxTaskEvents)
    \/ RunBotSeenFrom(CaseSenders, MaxTaskEvents)
    \/ LoopPrivmsg
    \/ LoopSeen
    \/ LoopUpdateWeather
    \/ LoopUpdateLocation
    \/ LoopMessage
    \/ LoopSend
    \/ \E i \in 1..Len(tasks) : TaskFetch(i)
    \/ \E i \in 1..Len(tasks) : TaskFetchWeather(i)
    \/ \E i \in 1..Len(tasks) : TaskSend(i)

SpecStore == Init /\ [][NextStore]_vars

\* process_commands on its own
NextCommands == ProcessCommandsCall

SpecCommands == Init /\ [][NextCommands]_vars

\* what is said during a game: a start, with a length and without, a
\* letter of the word, two letters that are in no word, a word and a lone
\* "."
HangContents ==
    {Content("HangStart", <<>>, <<>>), Content("HangStart", Spelt.short, <<>>),
     Content("Hang", <<"o">>, <<>>), Content("Hang", <<"b">>, <<>>),
     Content("Hang", <<"f">>, <<>>),
     Content("HangGuess", <<"h", "o", "u", "s", "e">>, <<>>),
     Content("HangGuess", <<".">>, <<>>)}

\* seven letters that are in no word of the list
WrongLetters == <<"b", "f", "g", "i", "j", "k", "l">>

\* a game played to its loss: the n-th message of the channel is a
\* start, then the wrong letters one after the other, then starts again;
\* the third message may instead repeat the first wrong letter and the
\* fifth may be a letter of the word
LossContents ==
    [n \in 1..(MaxLossEvents + 1) |->
        IF n > 1 /\ n <= Len(WrongLetters) + 1
        THEN {Content("Hang", <<WrongLetters[n - 1]>>, <<>>)}
             \cup (IF n = 3 THEN {Content("Hang", <<WrongLetters[1]>>, <<>>)}
                   ELSE {})
             \cup (IF n = 5 THEN {Content("Hang", <<"o">>, <<>>)} ELSE {})
        ELSE {Content("HangStart", <<>>, <<>>)}]

\* the players
Players == {[source |-> "Bob", target |-> "#games"]}

\* hangman: starts and guesses in the game channel and outside it
NextHangman ==
    \/ RunBotMessage(HangContents, MaxHangEvents)
    \/ LoopMessage
    \/ LoopSend
    \/ LoopHang
    \/ LoopHangGuess

SpecHangman == Init /\ [][NextHangman]_vars

\* hangman: one game lost in the game channel
NextLoss ==
    \/ RunBotMessageFrom(Players, LossContents[events + 1], MaxLossEvents)
    \/ LoopMessage
    \/ LoopSend
    \/ LoopHang
    \/ LoopHangGuess

SpecLoss == Init /\ [][NextLoss]_vars

\* tells for bob, then chat: the first messages are tells, the later ones
\* are plain lines, each from anyone
TellContents ==
    [n \in 1..(MaxTellEvents + 1) |->
        IF n <= NotifyBreak + 2 THEN {Content("Tell", "bob", "hi")}
        ELSE {Content("Ignore", "", "")}]

\* the notifications
NextTell ==
    \/ RunBotMessageFrom(Senders \cup CaseSenders, TellContents[events + 1],
                         MaxTellEvents)
    \/ LoopMessage

SpecTell == Init /\ [][NextTell]_vars

\* a burst: weather for a place, then chat
BurstContents ==
    [n \in 1..(MaxBurstEvents + 1) |->
        IF n = 1 THEN {Content("Weather", "Berlin", "")}
        ELSE {Content("Ignore", "", "")}]

\* the state after construction on the database of an earlier run
\* (Database::open creates the tables only if they do not exist): the
\* place is in table locations, and the settings hold a weather key
InitRestart ==
    /\ queue = <<>>
    /\ loop = "recv"
    /\ wait = None
    /\ apiKey = TRUE
    /\ notifications = <<>>
    /\ nextId = 1
    /\ seen = <<>>
    /\ locations = DbAddLocation(<<>>, "berlin", Geocode("berlin"))
    /\ weather = <<>>
    /\ coins = <<>>
    /\ sink = <<>>
    /\ tasks = <<>>
    /\ printed = {}
    /\ events = 0
    /\ command = None
    /\ call = None
    /\ hangman = NoGame

\* the loop and the weather tasks under a burst of messages
NextBurst ==
    \/ RunBotMessageFrom(Players, BurstContents[events + 1], MaxBurstEvents)
    \/ LoopPrivmsg
    \/ LoopUpdateWeather
    \/ LoopMessage
    \/ LoopSend
    \/ \E i \in 1..Len(tasks) : TaskFetch(i)
    \/ \E i \in 1..Len(tasks) : TaskSend(i)

SpecBurst == InitRestart /\ [][NextBurst]_vars

\* weather for a place, then weather for the place on record, then chat
PreferenceContents ==
    [n \in 1..(MaxTaskEvents + 2) |->
        IF n = 1 THEN {Content("Weather", "Berlin", "")}
        ELSE IF n = 2 THEN {Content("Weather", "", "")}
        ELSE {Content("Ignore", "", "")}]

\* one user asking for the weather twice, the place being cached
NextPreference ==
    \/ RunBotMessageFrom(Players, PreferenceContents[events + 1],
                         MaxTaskEvents)
    \/ LoopPrivmsg
    \/ LoopUpdateWeather
    \/ LoopUpdateLocation
    \/ LoopMessage
    \/ LoopSend
    \/ \E i \in 1..Len(tasks) : TaskFetch(i)
    \/ \E i \in 1..Len(tasks) : TaskFetchWeather(i)
    \/ \E i \in 1..Len(tasks) : TaskSend(i)

SpecPreference == InitRestart /\ [][NextPreference]_vars

\* the sparkline
NextGraph == GraphCall

SpecGraph == Init /\ [][NextGraph]_vars

\* the statistics of the coins
NextStats == CoinStatsCall

SpecStats == Init /\ [][NextStats]_vars

\* everything
Next ==
    \/ RunBotMessage(Contents, MaxTaskEvents)
    \/ RunBotSeen(MaxTaskEvents)
    \/ RunBotLinks(MaxTaskEvents)
    \/ RunBotQuit(MaxTaskEvents)
    \/ LoopQuit
    \/ LoopPrivmsg
    \/ LoopLinks
    \/ LoopSeen
    \/ LoopUpdateWeather
    \/ LoopUpdateLocation
    \/ LoopMessage
    \/ LoopSend
    \/ LoopLastfm
    \/ LoopHang
    \/ LoopHangGuess
    \/ \E i \in 1..Len(tasks) : TaskFetch(i)
    \/ \E i \in 1..Len(tasks) : TaskFetchWeather(i)
    \/ \E i \in 1..Len(tasks) : TaskSend(i)

Spec == Init /\ [][Next]_vars


\* ------------------------------------------------------------ properties
\* a step in which the loop receives a Message whose text classifies as
\* `task` and runs process_messages on it
Handling(task) ==
    /\ CanRecv
    /\ Head(queue).kind = "Message"
    /\ Head(queue).content.task = task
    /\ queue' = Tail(queue)

\* the calls of client.send_privmsg made in a step
NewLines == SubSeq(sink', Len(sink) + 1, Len(sink'))

\* the calls among `lines` that deliver notifications / answer the command
Notified(lines) == SelectSeq(lines, LAMBDA l : l.by.o = "notify")
Replies(lines) == SelectSeq(lines, LAMBDA l : l.by.o = "cmd")

\* the step got as far as `match command`: no notification line failed
ReachedCommand == \A i \in 1..Len(NewLines) :
                     NewLines[i].by.o = "notify" => NewLines[i].ok

\* C1: handling one message of a speaker with n pending notifications
\* sends exactly min(n, 2) notification lines, the first min(n, 2) pending
\* ones, deletes exactly those rows and leaves every other stored row as it
\* was.
C1_NotificationCap ==
    [][(CanRecv /\ Head(queue).kind = "Message" /\ queue' = Tail(queue)) =>
        LET pend == DbCheckNotification(notifications, Head(queue).source)
            k == Min(Len(pend), 2)
            told == Notified(NewLines)
            gone == {pend[i].id : i \in 1..k}
        IN /\ Len(told) = k
           /\ \A i \in 1..Min(k, Len(told)) : told[i].by.id = pend[i].id
           /\ SelectSeq(notifications', LAMBDA r : r.id < nextId)
                = SelectSeq(notifications, LAMBDA r : r.id \notin gone)
      ]_vars

\* C2: no notification is sent to the channel twice, and a notification
\* that has been sent is no longer a row of the notifications table.
C2_AtMostOnce ==
    LET told == Notified(sink)
    IN /\ \A i, j \in 1..Len(told) :
            i < j => told[i].by.id # told[j].by.id
       /\ \A i \in 1..Len(told) :
            \A j \in 1..Len(notifications) :
               notifications[j].id # told[i].by.id

\* C3: a tell whose add_notification succeeds stores exactly one row
\* {recipient = nick, via = source, message} and sends exactly one reply
\* "Ok, I'll tell {nick} that" to the target of the message; a tell whose
\* add_notification fails sends no reply and adds no row.  Either way no
\* other row and no other table changes.
C3_TellContract ==
    [][Handling("Tell") =>
        LET msg == Head(queue)
            replies == Replies(NewLines)
            added == SelectSeq(notifications', LAMBDA r : r.id >= nextId)
            kept == SelectSeq(notifications', LAMBDA r : r.id < nextId)
            failed == Printed("SQL error adding notification: {}", msg.ev)
                         \in printed'
        IN /\ (ReachedCommand /\ ~failed) => added # <<>>
           /\ failed => added = <<>>
           /\ added # <<>> =>
                /\ added = <<[id |-> nextId, recipient |-> msg.content.a,
                              via |-> msg.source, message |-> msg.content.b]>>
                /\ nextId' = nextId + 1
                /\ Len(replies) = 1
                /\ replies[1].target = msg.target
                /\ replies[1].text =
                      Text("Ok, I'll tell {} that", msg.content.a, "", "")
           /\ added = <<>> => replies = <<>> /\ nextId' = nextId
           /\ \A i \in 1..Len(kept) :
                 \E j \in 1..Len(notifications) : kept[i] = notifications[j]
           /\ UNCHANGED <<seen, locations, weather, coins, tasks>>
      ]_vars

\* a tell has been stored and acknowledged
C3_Witness ==
    /\ \E i \in 1..Len(sink) :
          /\ sink[i].text.fmt = "Ok, I'll tell {} that"
          /\ sink[i].by.o = "cmd"
    /\ \E j \in 1..Len(notifications) : notifications[j].recipient = "bob"
    /\ \E p \in printed : p.what = "SQL error adding notification: {}"

\* C10: the seen command sends exactly one reply, to the target of the
\* message: "{nick} has not previously been seen" when no row matches the
\* nick, the last-seen line of the matching row when one does, or the
\* failure reply "SQL error".
C10_SeenOneReply ==
    [][(Handling("Seen") /\ ReachedCommand) =>
        LET msg == Head(queue)
            replies == Replies(NewLines)
            p == DbCheckSeen(seen, msg.content.a)
        IN /\ Len(replies) = 1
           /\ replies[1].target = msg.target
           /\ \/ replies[1].text = Text("SQL error", "", "", "")
              \/ /\ p = None
                 /\ replies[1].text =
                       Text("{} has not previously been seen",
                            msg.content.a, "", "")
              \/ /\ p # None
                 /\ replies[1].text.fmt = "{} was last seen {} {}"
                 /\ replies[1].text.a = p[1].username
                 /\ replies[1].text.c = p[1].message
      ]_vars

\* seen has answered with the last-seen line of a row whose username differs
\* from the asked nick in case only
C10_Witness ==
    \E i \in 1..Len(sink) :
       /\ sink[i].by.o = "cmd"
       /\ sink[i].text.fmt = "{} was last seen {} {}"
       /\ sink[i].text.a = "Bob"

\* the replies of task i, in the order they are or will be sent: those the
\* transport has been given, those waiting in the queue, those the task has
\* still to send
SentBy(i) == SelectSeq(sink, LAMBDA l : l.by = By("task", i))
QueuedBy(i) ==
    SelectSeq(queue, LAMBDA m : m.kind = "Privmsg" /\ m.by = By("task", i))
UnsentBy(i) == SelectSeq(tasks[i].out, LAMBDA m : m.kind = "Privmsg")
RepliesOf(i) ==
    [k \in 1..Len(SentBy(i)) |->
        [target |-> SentBy(i)[k].target, text |-> SentBy(i)[k].text]]
    \o [k \in 1..Len(QueuedBy(i)) |->
        [target |-> QueuedBy(i)[k].target, text |-> QueuedBy(i)[k].text]]
    \o [k \in 1..Len(UnsentBy(i)) |->
        [target |-> UnsentBy(i)[k].target, text |-> UnsentBy(i)[k].text]]

\* C4: the replies of a coins command whose fetch succeeded are exactly
\* two, to the target of the command, the graph line and then the stats
\* line; before the fetch returns and after a failed fetch there is none.
C4_CoinsOrder ==
    \A i \in 1..Len(tasks) :
       tasks[i].kind = "coins" =>
          LET t == tasks[i]
              c == GetCoins(Pair("btc"), "1d", t.res)
          IN IF t.pc # "fetch" /\ t.res \in Quotes
             THEN RepliesOf(i) = <<[target |-> t.target, text |-> c.data_0],
                                   [target |-> t.target, text |-> c.data_1]>>
             ELSE RepliesOf(i) = <<>>

\* both lines of a coins command have reached the transport, in a channel
\* where another coins command failed to fetch
C4_Witness ==
    \E i, j \in 1..Len(tasks) :
       /\ tasks[i].kind = "coins" /\ tasks[i].pc = "done"
       /\ Len(SentBy(i)) = 2
       /\ SentBy(i)[1].text.fmt = "{coin} {sign}{} {} {graph} spot: {sign}{} {}"
       /\ tasks[j].kind = "coins" /\ tasks[j].res = "err"

\* C5: the replies of one task are contiguous: no reply of another task
\* stands between two replies of the same task.
C5_NoMidTaskSplit ==
    \A a, b, c \in 1..Len(sink) :
       (/\ a < b /\ b < c
        /\ sink[a].by.o = "task" /\ sink[b].by.o = "task"
        /\ sink[c].by = sink[a].by)
       => sink[b].by = sink[a].by

\* C6: once both replies of a successful coins command have been sent, the
\* coins table holds a row of that pair with the two lines sent.
C6_SnapshotPersisted ==
    \A i \in 1..Len(tasks) :
       (tasks[i].kind = "coins" /\ Len(SentBy(i)) = 2) =>
          \E k \in 1..Len(coins) :
             /\ coins[k].coin = tasks[i].a
             /\ coins[k].data_0 = SentBy(i)[1].text
             /\ coins[k].data_1 = SentBy(i)[2].text

\* a fetcher has been called and has not returned yet
FetchInFlight ==
    \/ loop = "lastfm"
    \/ \E i \in 1..Len(tasks) : tasks[i].pc \in {"fetch", "fetch2"}

\* C7: while a fetch is in flight the loop can still receive: a command
\* waiting in the queue is never kept there by a fetch.
C7_NonBlockingDispatch ==
    (FetchInFlight /\ LoopAlive /\ queue # <<>>) => (CanRecv \/ loop = "send")

\* C8: a send that fails does not end the loop.
C8_CrashContainment ==
    (\E i \in 1..Len(sink) : ~sink[i].ok) => loop # "panicked"

\* what the command handlers print when their store call fails
HandlerStoreErrors ==
    {"SQL error adding notification: {}", "Error checking weather: {}",
     "Error checking location: {}",
     "Error fetching location from database: {}"}

\* C9: a command whose handler got an error from the store sends no reply
\* and starts no fetch.
C9_StoreErrorsSilent ==
    \A p \in printed :
       p.what \in HandlerStoreErrors =>
          /\ \A i \in 1..Len(sink) : sink[i].by # By("cmd", p.ev)
          /\ \A i \in 1..Len(tasks) : tasks[i].ev # p.ev

\* the rows of a per-user table are keyed case-insensitively: no two rows
\* have usernames that differ in case only
UniqueNoCase(tbl) ==
    \A i, j \in 1..Len(tbl) :
       i # j => ~NoCaseEq(tbl[i].username, tbl[j].username)

\* C11: the seen table and the weather table each hold at most one row per
\* case-insensitive username, and after a write the row found for that
\* username holds the values just written.
C11_CaseInsensitiveRows ==
    [][/\ UniqueNoCase(seen') /\ UniqueNoCase(weather')
       /\ (CanRecv /\ Head(queue).kind = "Seen" /\ seen' # seen) =>
             DbCheckSeen(seen', Head(queue).e.username) = Some(Head(queue).e)
       /\ (CanRecv /\ Head(queue).kind = "UpdateWeather" /\ weather' # weather)
             => DbCheckWeather(weather', Head(queue).user)
                   = Some([lat |-> Head(queue).lat, lon |-> Head(queue).lon])
      ]_vars

\* the spellings of the place a query can take
Spellings == {"berlin", "Berlin", "BERLIN"}

\* a step in which the loop receives UpdateLocation and db.add_location
\* inserts the row
LocationAdded ==
    /\ CanRecv
    /\ Head(queue).kind = "UpdateLocation"
    /\ locations' # locations

\* C12: after add_location(q, record) has succeeded, check_location returns
\* that record (lat, lon, city, country) for q and for every other spelling
\* of q that differs in case only.
C12_LocationRoundTrip ==
    [][LocationAdded =>
        \A q \in Spellings :
           NoCaseEq(q, Head(queue).loc) =>
              DbCheckLocation(locations', q) =
                 Some([lat |-> Head(queue).e.lat, lon |-> Head(queue).e.lon,
                       city |-> Head(queue).e.city,
                       country |-> Head(queue).e.country])
      ]_vars

\* two spellings of the place are stored with different coordinates, and a
\* third spelling finds the one stored last
C12_Witness ==
    /\ Len(locations) = 2
    /\ locations[1].lat # locations[2].lat
    /\ DbCheckLocation(locations, "BERLIN") # None
    /\ DbCheckLocation(locations, "BERLIN")[1].lat = locations[2].lat

\* C13: a stored location is never replaced: whatever check_location
\* returns for a query once a record is stored, it returns from then on.
C13_LocationImmutable ==
    [][\A q \in Spellings :
          DbCheckLocation(locations, q) # None =>
             DbCheckLocation(locations', q) = DbCheckLocation(locations, q)
      ]_vars

\* the tasks spawned in a step
NewTasks == SubSeq(tasks', Len(tasks) + 1, Len(tasks'))

\* C14: a weather or location command for a query that has a record in the
\* locations table starts no geocoding for it.
C14_NoRefetch ==
    [][((Handling("Weather") \/ Handling("Location"))
        /\ DbCheckLocation(locations, Head(queue).content.a) # None) =>
          \A i \in 1..Len(NewTasks) :
             NewTasks[i].kind \notin {"geoweather", "location"}
      ]_vars

\* the map link of a location has been sent
MapLinkSent(i) ==
    sink[i].text.fmt = "https://www.openstreetmap.org/?mlat={}&mlon={}"

\* C15 as stated: once a location command has resolved coordinates and
\* answered with the map link, the weather preference has been upserted to
\* those coordinates, or the upsert is on the queue.
C15_LocUpdatesWeather ==
    \A i \in 1..Len(sink) :
       MapLinkSent(i) =>
          \/ \E k \in 1..Len(weather) :
                /\ weather[k].lat = sink[i].text.a
                /\ weather[k].lon = sink[i].text.b
          \/ \E k \in 1..Len(queue) :
                /\ queue[k].kind = "UpdateWeather"
                /\ queue[k].lat = sink[i].text.a
                /\ queue[k].lon = sink[i].text.b

\* C15 amended: the location command does not touch the weather
\* preference: where only location commands are given, no UpdateWeather is
\* ever sent by the handler or by its task and the weather table stays
\* empty.
C15_LocLeavesWeather ==
    /\ weather = <<>>
    /\ loop # "send"
    /\ \A k \in 1..Len(queue) : queue[k].kind # "UpdateWeather"
    /\ \A i \in 1..Len(tasks) :
          \A k \in 1..Len(tasks[i].out) :
             tasks[i].out[k].kind # "UpdateWeather"

\* the map link has been sent both from the cache and after geocoding
C15_Witness ==
    /\ \E i \in 1..Len(sink) : MapLinkSent(i) /\ sink[i].by.o = "cmd"
    /\ \E i \in 1..Len(sink) : MapLinkSent(i) /\ sink[i].by.o = "task"
    /\ locations # <<>>

\* C16: a location command that misses the cache ends with exactly one
\* reply: the map link when geocoding found the place, a failure reply when
\* it found nothing and when the fetch failed.
C16_LocationAlwaysAnswers ==
    \A i \in 1..Len(tasks) :
       (tasks[i].kind = "location" /\ tasks[i].pc = "done") =>
          /\ Len(RepliesOf(i)) = 1
          /\ RepliesOf(i)[1].target = tasks[i].target
          /\ IF tasks[i].res = "some"
             THEN RepliesOf(i)[1].text = MapLink(Geocode(tasks[i].location))
             ELSE RepliesOf(i)[1].text.fmt
                     = "Unable to fetch location data for {}"

\* C17: a weather command whose geocoding finds nothing sends exactly one
\* reply, "Unable to fetch location for {loc}", sends no update to the
\* store and does not call get_weather; one whose geocoding fails sends
\* nothing at all.  While no geocoding has found a place, both tables are
\* empty.
C17_WeatherGeocodeMiss ==
    /\ \A i \in 1..Len(tasks) :
          tasks[i].kind = "geoweather" =>
             LET t == tasks[i]
                 said == Text("Unable to fetch location for {}",
                              t.location, "", "")
                 sent == {k \in 1..Len(sink) : sink[k].by = By("task", i)}
                 queued == {k \in 1..Len(queue) :
                              /\ queue[k].kind = "Privmsg"
                              /\ queue[k].by = By("task", i)}
             IN /\ t.res = "none" =>
                     /\ Cardinality(sent) + Cardinality(queued) + Len(t.out) = 1
                     /\ \A k \in sent : /\ sink[k].target = t.target
                                        /\ sink[k].text = said
                     /\ \A k \in queued : /\ queue[k].target = t.target
                                          /\ queue[k].text = said
                     /\ \A k \in 1..Len(t.out) :
                           /\ t.out[k].kind = "Privmsg"
                           /\ t.out[k].target = t.target
                           /\ t.out[k].text = said
                     /\ t.pc \in {"send", "done"}
                     /\ t.then = "done"
                /\ t.res = "err" =>
                     /\ sent = {} /\ queued = {}
                     /\ t.pc = "done"
                     /\ t.out = <<>>
    /\ (\A i \in 1..Len(tasks) : tasks[i].res # "some") =>
          /\ weather = <<>>
          /\ locations = <<>>
          /\ loop # "send"
          /\ \A k \in 1..Len(queue) :
                queue[k].kind \notin {"UpdateWeather", "UpdateLocation"}

\* one weather command has ended with the reply that the place was not
\* found, another without a word after a failed geocoding
C17_Witness ==
    \E i, j \in 1..Len(tasks) :
       /\ tasks[i].kind = "geoweather" /\ tasks[i].res = "none"
       /\ Len(SentBy(i)) = 1
       /\ SentBy(i)[1].text.fmt = "Unable to fetch location for {}"
       /\ tasks[j].kind = "geoweather" /\ tasks[j].res = "err"
       /\ tasks[j].pc = "done"

\* the weather preference / the location a geocoding task reported is in
\* its table
PreferenceStored(t) ==
    \E k \in 1..Len(weather) :
       /\ weather[k].username = t.source
       /\ weather[k].lat = t.coords.lat
       /\ weather[k].lon = t.coords.lon
LocationStored(t) ==
    \E k \in 1..Len(locations) :
       /\ locations[k].loc = t.location
       /\ locations[k].lat = t.coords.lat
       /\ locations[k].lon = t.coords.lon

\* .. is on the queue
PreferenceQueued(t) ==
    \E k \in 1..Len(queue) :
       queue[k] = UpdateWeather(t.source, t.coords.lat, t.coords.lon)
LocationQueued(t) ==
    \E k \in 1..Len(queue) :
       /\ queue[k].kind = "UpdateLocation"
       /\ queue[k].loc = t.location

\* db.add_weather / db.add_location has returned an error
PreferenceFailed == Printed("SQL error updating weather: {}", 0) \in printed
LocationFailed == Printed("SQL error updating location: {}", 0) \in printed

\* the weather line of task i has been sent
WeatherSent(i) ==
    \E k \in 1..Len(sink) :
       /\ sink[k].by = By("task", i)
       /\ sink[k].text.fmt = "Weather for {}: {}, ..."

\* task i has geocoded its place and sent both updates
UpdatesSent(i) ==
    /\ tasks[i].kind = "geoweather"
    /\ tasks[i].res = "some"
    /\ \/ tasks[i].pc \in {"fetch2", "done"}
       \/ tasks[i].pc = "send" /\ tasks[i].then = "done"

WeatherKind(t) == t.kind \in {"weather", "geoweather"}

\* what a weather task sends carries the values it captured: every reply
\* goes to its target, every preference is keyed by its source
SendsOwnValues ==
    \A i \in 1..Len(tasks) :
       WeatherKind(tasks[i]) =>
          /\ \A k \in 1..Len(sink) :
                sink[k].by = By("task", i) => sink[k].target = tasks[i].target
          /\ \A k \in 1..Len(queue) :
                (queue[k].kind = "Privmsg" /\ queue[k].by = By("task", i)) =>
                   queue[k].target = tasks[i].target
          /\ \A k \in 1..Len(tasks[i].out) :
                /\ tasks[i].out[k].kind = "Privmsg" =>
                      tasks[i].out[k].target = tasks[i].target
                /\ tasks[i].out[k].kind = "UpdateWeather" =>
                      tasks[i].out[k].user = tasks[i].source

\* the values a weather task captures are those of the message whose
\* handler spawns it, and they never change afterwards
CapturesOwnEvent ==
    /\ Handling("Weather") =>
          /\ \A i \in 1..Len(NewTasks) :
                /\ NewTasks[i].ev = Head(queue).ev
                /\ NewTasks[i].target = Head(queue).target
                /\ NewTasks[i].kind = "geoweather" =>
                      NewTasks[i].source = Head(queue).source
          /\ loop' = "send" =>
                /\ wait'[1].msg.user = Head(queue).source
                /\ \A i \in 1..Len(wait'[1].spawn) :
                      /\ wait'[1].spawn[i].ev = Head(queue).ev
                      /\ wait'[1].spawn[i].target = Head(queue).target
    /\ \A i \in 1..Len(tasks) :
          /\ tasks'[i].ev = tasks[i].ev
          /\ tasks'[i].target = tasks[i].target
          /\ tasks'[i].source = tasks[i].source
    /\ (Len(queue') > Len(queue)
        /\ queue'[Len(queue')].kind = "UpdateWeather") =>
          \/ loop = "send" /\ queue'[Len(queue')] = wait[1].msg
          \/ \E i \in 1..Len(tasks) :
                /\ tasks[i].pc = "send"
                /\ tasks'[i] # tasks[i]
                /\ queue'[Len(queue')].user = tasks[i].source

\* C19: with any number of weather commands in flight, every reply goes to
\* the target of the message that started its task and every weather
\* preference is keyed by the source of that same message.
C19_TaskIsolation == []SendsOwnValues /\ [][CapturesOwnEvent]_vars

\* two weather commands from two users in two channels were in flight
\* together, both have been answered and both preferences are stored
C19_Witness ==
    \E i, j \in 1..Len(tasks) :
       /\ tasks[i].kind = "geoweather" /\ tasks[j].kind = "geoweather"
       /\ tasks[i].target = "#chan" /\ tasks[j].target = "#games"
       /\ WeatherSent(i) /\ WeatherSent(j)
       /\ SentBy(i)[1].target = "#chan" /\ SentBy(j)[1].target = "#games"
       /\ PreferenceStored(tasks[i]) /\ PreferenceStored(tasks[j])

\* the spawned block i is at an await and has not finished
InFlight(i) == tasks[i].pc \in {"fetch", "fetch2", "send"}

\* the next step of block i: a fetch returns or a send completes
TaskStep(i) == TaskFetch(i) \/ TaskFetchWeather(i) \/ TaskSend(i)

\* the weather line of task i is the a-th line sent
WeatherLineAt(i, a) ==
    /\ sink[a].by = By("task", i)
    /\ sink[a].text.fmt = "Weather for {}: {}, ..."

\* the block i of a weather command resumes from an await
Resumes(i) ==
    /\ InFlight(i)
    /\ WeatherKind(tasks[i])
    /\ tasks'[i] # tasks[i]

\* block j, of another user's weather command, is in flight beside block i
Rival(i, j) ==
    /\ j # i
    /\ InFlight(j)
    /\ WeatherKind(tasks[j])
    /\ tasks[i].target # tasks[j].target

\* C20: two weather commands of different users that are both in flight
\* are not ordered by their dispatch: whenever one of the two blocks takes
\* its next step, whichever was dispatched first, the other block could
\* have taken its step instead, so either reply can enter the queue, and
\* be emitted, first.
C20_NoCrossCommandOrder ==
    [][tasks' # tasks =>
         \A i \in 1..Len(tasks) :
            Resumes(i) =>
               \A j \in 1..Len(tasks) :
                  Rival(i, j) => ENABLED TaskStep(j)]_vars

\* A was dispatched before B, by another user, and the weather reply of B
\* was emitted before the weather reply of A
C20_Witness ==
    \E i, j \in 1..Len(tasks) :
       /\ tasks[i].ev < tasks[j].ev
       /\ WeatherKind(tasks[i]) /\ WeatherKind(tasks[j])
       /\ tasks[i].target # tasks[j].target
       /\ \E a, b \in 1..Len(sink) :
             a < b /\ WeatherLineAt(j, a) /\ WeatherLineAt(i, b)

\* the sub-command of the call recorded in `command`, None if the bot is
\* not addressed
SubCommand == BotPrefix(command[1].nick, command[1].msg)

\* C21: process_commands returns a Task for every nickname and every text,
\* and the Task of an addressed message whose sub-command has no arm in
\* the table is Ignore.
C21_ClassifyTotal ==
    command # None =>
       /\ command[1].task.task \in TaskNames
       /\ (SubCommand # None /\ SubCommand[1] \notin TableWords) =>
             command[1].task = Content("Ignore", <<>>, <<>>)

\* the lone prefix "./" has been classified: addressed, with the empty
\* sub-command, and ignored
C21_Witness ==
    /\ command # None
    /\ command[1].msg = << <<".", "/">> >>
    /\ SubCommand = Some(<<>>)
    /\ command[1].task.task = "Ignore"

\* C22: an unaddressed message is classified as a Hangman guess only when
\* it is a single token of exactly one lowercase letter a-z; every other
\* unaddressed message, the lone tokens "." and "!" included, is
\* classified as Ignore.
C22_UnaddressedGuess ==
    (command # None /\ SubCommand = None) =>
       LET msg == command[1].msg
           task == command[1].task
           letter == /\ Len(msg) = 1
                     /\ Len(msg[1]) = 1
                     /\ \E i \in 1..26 : LowerCase[i] = msg[1][1]
       IN  IF letter
           THEN task.task \in {"Hang", "HangGuess"}
           ELSE task = Content("Ignore", <<>>, <<>>)

\* the recorded call is a lone "seen" in one of the address forms:
\* "./seen", ".seen", "!seen", or the bot's name followed by "seen"
LoneSeen(form) ==
    LET nick == command[1].nick
        msg == command[1].msg
    IN  IF form = "name"
        THEN /\ Len(msg) = 2
             /\ StartsWith(ToLowercase(msg[1]), nick)
             /\ msg[1][1] \notin {".", "!"}
             /\ msg[2] = Spelt.seen
        ELSE /\ Len(msg) = 1
             /\ \/ form = "./" /\ msg[1] = <<".", "/">> \o Spelt.seen
                \/ form = "." /\ msg[1] = <<".">> \o Spelt.seen
                \/ form = "!" /\ msg[1] = <<"!">> \o Spelt.seen

\* C23: for every address form ("./seen", ".seen", "!seen", "<nick>: seen")
\* with no further token, process_commands returns
\* Task::Message("Hint: seen <nick>").
C23_SeenHint ==
    command # None =>
       \A form \in {"./", ".", "!", "name"} :
          LoneSeen(form) =>
             command[1].task = Content("Message", <<"Hint: seen <nick>">>, <<>>)

\* "Boot, seen" was said to the bot named boot and answered with the hint
C23_Witness ==
    /\ command # None
    /\ LoneSeen("name")
    /\ command[1].msg[1] = <<"B", "o", "o", "t", ",">>
    /\ command[1].task.task = "Message"
    /\ command[1].task.a = Reply.seen

\* C24: for every coin alias c and timeframe alias t, an addressed message
\* using any upper/lower-case variant of c and of t classifies to the same
\* Coins command as the all-lowercase form.
C24_CaseInsensitiveCoins ==
    LET nick == command[1].nick
        msg == command[1].msg
        task == command[1].task
        rest == AfterPrefix(nick, msg)
        lower == ProcessCommands(nick,
                                 [i \in 1..Len(msg) |-> ToLowercase(msg[i])])
    IN  (/\ command # None
         /\ SubCommand # None
         /\ ToLowercase(SubCommand[1]) \in CoinWords
         /\ rest # <<>>
         /\ \E t \in CoinTimes : EqIgnoreAsciiCase(t, rest[1]))
        => /\ lower.task = "Coins"
           /\ task.task = "Coins"
           /\ ToLowercase(task.a) = lower.a
           /\ task.b = lower.b

\* the recorded call is an addressed coin command
CoinCommand ==
    /\ command # None
    /\ SubCommand # None
    /\ SubCommand[1] \in CoinWords

\* the token after the coin, lowered; empty when there is none
TimeToken ==
    LET rest == AfterPrefix(command[1].nick, command[1].msg)
    IN IF rest = <<>> THEN <<>> ELSE ToLowercase(rest[1])

\* the seven time frames
TimeFrames ==
    {<<"1", "d">>, <<"7", "d">>, <<"1", "4", "d">>, <<"3", "1", "d">>, <<"1", "y">>, <<"3", "y">>, <<"5", "y">>}

\* C25 as stated: the time frame is "1d" for day/24h, "7d" for week/7d,
\* "14d" for fortnight/14d, "31d" for month/30d, "1y" for year, "3y" and
\* "5y" for themselves, and "1d" when the token is absent or none of
\* these; it is always one of the seven values.
C25_TimeframeTableAsStated ==
    CoinCommand =>
       LET t == TimeToken
           frame == command[1].task.b
       IN /\ frame \in TimeFrames
          /\ frame =
               IF t \in {<<"d", "a", "y">>, <<"2", "4", "h">>} THEN <<"1", "d">>
               ELSE IF t \in {<<"w", "e", "e", "k">>, <<"7", "d">>} THEN <<"7", "d">>
               ELSE IF t \in {<<"f", "o", "r", "t", "n", "i", "g", "h", "t">>, <<"1", "4", "d">>} THEN <<"1", "4", "d">>
               ELSE IF t \in {<<"m", "o", "n", "t", "h">>, <<"3", "0", "d">>} THEN <<"3", "1", "d">>
               ELSE IF t = <<"y", "e", "a", "r">> THEN <<"1", "y">>
               ELSE IF t = <<"3", "y">> THEN <<"3", "y">>
               ELSE IF t = <<"5", "y">> THEN <<"5", "y">>
               ELSE <<"1", "d">>

\* C25, amended: the time frame is "7d" for 7d/w/1w/week/weekly, "14d" for
\* 14d/2w/fortnight/fortnightly, "31d" for 31d/30d/month, "1y" for year,
\* "3y" and "5y" for themselves, and "1d" for every other token ("1d",
\* "day", "24h", "1y" and "spot" included) and when the token is absent;
\* it is always one of the seven values.
C25_TimeframeTable ==
    CoinCommand =>
       LET t == TimeToken
           frame == command[1].task.b
       IN /\ frame \in TimeFrames
          /\ frame =
               IF t \in {<<"7", "d">>, <<"w">>, <<"1", "w">>, <<"w", "e", "e", "k">>,
                         <<"w", "e", "e", "k", "l", "y">>}
               THEN <<"7", "d">>
               ELSE IF t \in {<<"1", "4", "d">>, <<"2", "w">>,
                              <<"f", "o", "r", "t", "n", "i", "g", "h", "t">>,
                              <<"f", "o", "r", "t", "n", "i", "g", "h", "t", "l", "y">>}
               THEN <<"1", "4", "d">>
               ELSE IF t \in {<<"3", "1", "d">>, <<"3", "0", "d">>, <<"m", "o", "n", "t", "h">>}
               THEN <<"3", "1", "d">>
               ELSE IF t = <<"y", "e", "a", "r">> THEN <<"1", "y">>
               ELSE IF t = <<"3", "y">> THEN <<"3", "y">>
               ELSE IF t = <<"5", "y">> THEN <<"5", "y">>
               ELSE <<"1", "d">>

\* "Weekly" after a coin was classified as seven days
C25_Witness ==
    /\ CoinCommand
    /\ TimeToken = <<"w", "e", "e", "k", "l", "y">>
    /\ command[1].msg[Len(command[1].msg)] # TimeToken
    /\ command[1].task.task = "Coins"
    /\ command[1].task.b = <<"7", "d">>

\* a step in which the loop receives a command of this kind
Receives(kind) ==
    /\ CanRecv
    /\ Head(queue).kind = kind
    /\ queue' = Tail(queue)

\* a step in which the loop receives what Task::HangStart sent
StartReceived == Receives("HangGuess") /\ Head(queue).by.o = "HangStart"

\* C26: a HangStart received while a game is in progress emits "A game is
\* already in progress!" to the channel and leaves the secret word, the
\* revealed pattern, the wrong guesses and the attempt count unchanged.
C26_StartRejected ==
    [][(StartReceived /\ hangman.started) =>
          /\ hangman' = hangman
          /\ Len(NewLines) = 1
          /\ NewLines[1].text.fmt = "A game is already in progress!"
          /\ NewLines[1].target = Head(queue).target
      ]_vars

\* a start was rejected in a game that had a wrong guess, and the game is
\* still there with its guess
C26_Witness ==
    /\ hangman.started
    /\ hangman.attempts = 1
    /\ hangman.wrong # {}
    /\ sink # <<>>
    /\ sink[Len(sink)].text.fmt = "A game is already in progress!"
    /\ sink[Len(sink)].by.o = "HangStart"
    /\ sink[Len(sink)].ok

\* a step in which the loop receives a letter that is not in the word and
\* was not guessed before
WrongGuess ==
    /\ Receives("Hang")
    /\ hangman.started
    /\ Head(queue).token \notin hangman.wrong
    /\ \A i \in 1..Len(hangman.word) : hangman.word[i] # Head(queue).token[1]

\* a letter said in the game channel is sent to the loop as it was said,
\* and put on the queue behind what is there
LetterForwarded ==
    /\ (Handling("Hang") /\ Head(queue).target = Games) =>
          /\ loop' = "send"
          /\ wait' # None
          /\ wait'[1].msg.kind = "Hang"
          /\ wait'[1].msg.token = Head(queue).content.a
          /\ hangman' = hangman
    /\ (loop = "send" /\ loop' # "send") => queue' = Append(queue, wait[1].msg)

\* each distinct wrong letter counts once; the seventh ends the game and
\* the line sent reveals the word
WrongGuessCounted ==
    WrongGuess =>
       IF hangman.attempts + 1 < 7
       THEN /\ hangman'.started
            /\ hangman'.word = hangman.word
            /\ hangman'.attempts = hangman.attempts + 1
            /\ hangman'.wrong = hangman.wrong \cup {Head(queue).token}
       ELSE /\ ~hangman'.started
            /\ hangman'.attempts = 0 /\ hangman'.wrong = {}
            /\ Len(NewLines) = 1
            /\ NewLines[1].text.fmt = "lost, the word was {}"
            /\ NewLines[1].text.a = hangman.word

\* a start received while no game is running starts one
StartAccepted ==
    (StartReceived /\ ~hangman.started) =>
       /\ hangman'.started
       /\ hangman'.word \in Words
       /\ hangman'.attempts = 0 /\ hangman'.wrong = {}
       /\ \A i \in 1..Len(hangman'.word) : hangman'.pattern[i] = "_"

\* the attempts of a running game are its distinct wrong guesses, fewer
\* than seven
AttemptsAreWrongGuesses ==
    hangman.started =>
       /\ hangman.attempts = Cardinality(hangman.wrong)
       /\ hangman.attempts < 7

\* C27: from a fresh game, 7 distinct wrong-letter guesses on a word
\* containing none of them end the game, the loss message reveals the
\* secret word, the session returns to Idle, and a following HangStart
\* starts a new game.
C27_FullLoss ==
    /\ []AttemptsAreWrongGuesses
    /\ [][LetterForwarded /\ WrongGuessCounted /\ StartAccepted]_vars

\* a game was started and lost by seven wrong letters, its eighth line
\* revealed the word, and the start that followed began a new game
C27_Witness ==
    /\ Len(sink) = 9
    /\ \A i \in 1..9 : sink[i].ok
    /\ sink[1].by.o = "HangStart"
    /\ \A i \in 2..8 : sink[i].by.o = "Hang"
    /\ sink[8].text.fmt = "lost, the word was {}"
    /\ sink[8].text.a \in Words
    /\ sink[9].by.o = "HangStart"
    /\ sink[9].text.fmt = "{} attempts: {} guessed: {}"
    /\ hangman.started
    /\ hangman.attempts = 0

\* the Tasks of the game
HangTasks == {"Hang", "HangGuess", "HangStart"}

\* process_messages, given a start or a guess said in the game channel,
\* touches no session: it stops in one send of one Bot::Hang or
\* Bot::HangGuess made for that message; said elsewhere, nothing is sent
SentToLoop ==
    \A t \in HangTasks :
       Handling(t) =>
          /\ hangman' = hangman
          /\ IF Head(queue).target = Games
             THEN /\ loop' = "send"
                  /\ wait' # None
                  /\ wait'[1].msg.kind = IF t = "Hang" THEN "Hang"
                                         ELSE "HangGuess"
                  /\ wait'[1].msg.target = Games
                  /\ wait'[1].msg.by = By(t, Head(queue).ev)
             ELSE loop' = "recv" /\ wait' = None

\* the send puts the command on the queue, behind what is there
QueuedInOrder ==
    (loop = "send" /\ loop' # "send") =>
       /\ queue' = Append(queue, wait[1].msg)
       /\ hangman' = hangman

\* the session changes only in a step of the loop that takes one Bot::Hang
\* or Bot::HangGuess from the head of the queue
OnlyLoopMutates ==
    hangman' # hangman => Receives("Hang") \/ Receives("HangGuess")

\* C28: every Hangman start or guess the dispatcher produces (for the game
\* channel) is forwarded as one message on the command queue, and the
\* session is mutated only by the loop that drains the queue, one message
\* at a time.
C28_Serialized == [][SentToLoop /\ QueuedInOrder /\ OnlyLoopMutates]_vars

\* two guesses of a running game wait on the queue at once, in the order
\* they were said
C28_Witness ==
    /\ hangman.started
    /\ Len(queue) = 2
    /\ queue[1].kind \in {"Hang", "HangGuess"}
    /\ queue[2].kind \in {"Hang", "HangGuess"}
    /\ queue[1].by.o # "HangStart" /\ queue[2].by.o # "HangStart"
    /\ queue[1].by.id < queue[2].by.id

\* C29: with colours on, the bar at position 0 is green iff
\* prices[0] > initial and the bar at position i > 0 is green iff
\* prices[i] > prices[i-1], otherwise red; a price at or below 0.001 is a
\* blank instead of a bar.  With colours off a bar is the bare glyph.
C29_SparklineColours ==
    (call # None /\ call[1].fn = "graph") =>
       LET g == call[1]
       IN /\ Len(g.v) = Len(g.prices)
          /\ \A i \in 1..Len(g.prices) :
                LET p == g.prices[i]
                    prev == IF i = 1 THEN g.initial ELSE g.prices[i - 1]
                    bar == g.v[i]
                IN IF p <= 1 THEN bar = <<" ">>
                   ELSE IF g.colour
                   THEN /\ Len(bar) = 3
                        /\ bar[2] \in {Ticks[t] : t \in 1..Len(Ticks)}
                        /\ bar[3] = "\\x03"
                        /\ bar[1] = IF p > prev THEN "\\x0303" ELSE "\\x0304"
                   ELSE /\ Len(bar) = 1
                        /\ bar[1] \in {Ticks[t] : t \in 1..Len(Ticks)}

\* the sparkline of initial 0.010 and prices 0.010, 0.012, 0.008 with
\* colours: red, green, red
C29_Witness ==
    /\ call # None
    /\ call[1].fn = "graph"
    /\ call[1].initial = 10
    /\ call[1].prices = <<10, 12, 8>>
    /\ call[1].colour
    /\ call[1].v[1][1] = "\\x0304"
    /\ call[1].v[2][1] = "\\x0303"
    /\ call[1].v[3][1] = "\\x0304"

\* a call of get_coins that came to its statistics
StatsCalled == call # None /\ call[1].fn = "get_coins"

\* the series of a call: the price of every candle, then the spot price
Series(g) ==
    [i \in 1..(Len(g.coins) + 1) |->
        IF i <= Len(g.coins) THEN g.coins[i].vwap ELSE g.spot]

\* every candle is one price and no element is below the one before
Increasing(g) ==
    /\ \A i \in 1..Len(g.coins) :
          /\ ParseOr(g.coins[i].high, g.coins[i].vwap) = g.coins[i].vwap
          /\ ParseOr(g.coins[i].low, g.coins[i].vwap) = g.coins[i].vwap
    /\ \A i \in 1..Len(g.coins) : Series(g)[i] <= Series(g)[i + 1]

\* the sum of the first k elements, in exact arithmetic
RECURSIVE SumTo(_, _)
SumTo(series, k) == IF k = 0 THEN 0 ELSE SumTo(series, k - 1) + series[k]

\* no step of the mean rounds: every running sum is an f32 value and the
\* count divides the last one
NoRounding(series) ==
    /\ \A k \in 1..Len(series) :
          RoundRatio(SumTo(series, k), 1) = SumTo(series, k)
    /\ SumTo(series, Len(series)) % Len(series) = 0

Abs(x) == IF x < 0 THEN -x ELSE x

\* C30 as stated: on an increasing series the reported max is the last
\* element, the reported min the first, and the reported mean the
\* arithmetic mean of the candle prices and the spot price (read as the
\* f32 value nearest to it)
C30_StatsAsStated ==
    (StatsCalled /\ Increasing(call[1])) =>
       LET g == call[1]
           series == Series(g)
           len == Len(series)
       IN /\ g.stats.max.price = series[len]
          /\ g.stats.min.price = series[1]
          /\ g.stats.mean = RoundRatio(SumTo(series, len), len)

\* C30: on an increasing series the reported max is the last element (the
\* spot price) and the reported min the first; the reported mean is the
\* running f32 sum divided by the count, which is the arithmetic mean when
\* no step rounds and otherwise lies within a relative error of
\* count * 2^-23 of it
C30_Stats ==
    (StatsCalled /\ Increasing(call[1])) =>
       LET g == call[1]
           series == Series(g)
           len == Len(series)
           sum == SumTo(series, len)
       IN /\ g.stats.max.price = series[len]
          /\ g.stats.min.price = series[1]
          /\ Abs(len * g.stats.mean - sum) <= len * len * Ulp(sum \div len)
          /\ NoRounding(series) => len * g.stats.mean = sum

\* candles of 8388609 and 8388610 and a spot price of 8388612: the mean
\* is reported as 8388611, the arithmetic mean being 8388610 1/3
C30_Witness ==
    /\ StatsCalled
    /\ Increasing(call[1])
    /\ Series(call[1]) = <<8388609, 8388610, 8388612>>
    /\ call[1].stats.max.price = 8388612
    /\ call[1].stats.min.price = 8388609
    /\ call[1].stats.mean = 8388611

\* a step in which the loop receives a Message and runs process_messages
HandlingMessage ==
    /\ CanRecv
    /\ Head(queue).kind = "Message"
    /\ queue' = Tail(queue)

\* no call of the store failed in the step: nothing was printed, and a
\* speaker with pending notifications got a line pushed
StoreDidNotFail ==
    /\ printed' = printed
    /\ DbCheckNotification(notifications, Head(queue).source) # <<>>
          => Notified(NewLines) # <<>>

\* C31: when the store does not fail, a message of a recipient with n
\* pending notifications delivers the first min(n, 2) of them, leaves
\* max(0, n - 2) of them stored, and leaves the loop able to handle the
\* recipient's next message, so that k messages leave at most
\* max(0, n - 2k) and every notification is delivered in the end.
C31_NotificationLiveness ==
    [][(/\ HandlingMessage
        /\ StoreDidNotFail
        /\ DbCheckNotification(notifications, Head(queue).source) # <<>>) =>
        LET pend == DbCheckNotification(notifications, Head(queue).source)
            k == Min(Len(pend), 2)
            left == SelectSeq(DbCheckNotification(notifications',
                                                  Head(queue).source),
                              LAMBDA r : r.id < nextId)
        IN /\ Len(left) = Len(pend) - k
           /\ \A i \in 1..k :
                 \E j \in 1..Len(NewLines) :
                    /\ NewLines[j].by = By("notify", pend[i].id)
                    /\ NewLines[j].ok
           /\ LoopAlive'
      ]_vars

\* the pending notifications of the speaker that the speaker wrote
SelfTold ==
    SelectSeq(DbCheckNotification(notifications, Head(queue).source),
              LAMBDA r : NoCaseEq(r.via, Head(queue).source))

\* every call of client.send_privmsg in the step returned Ok
AllSent == \A j \in 1..Len(NewLines) : NewLines[j].ok

\* C32 as stated: a notification a user told to their own nick is not
\* emitted by the message that created it and is emitted on that user's
\* next message (store and sends working).
C32_SelfTellNextMessage ==
    [][(HandlingMessage /\ StoreDidNotFail /\ AllSent) =>
        /\ \A j \in 1..Len(NewLines) :
              NewLines[j].by.o = "notify" => NewLines[j].by.id < nextId
        /\ \A i \in 1..Len(SelfTold) :
              \E j \in 1..Len(NewLines) :
                 NewLines[j].by = By("notify", SelfTold[i].id)
      ]_vars

\* C32: a notification is never emitted by the message that created it
\* (the rows are looked up before the tell is stored); it waits behind the
\* older notifications of its recipient, and a later message of the
\* recipient emits it only when at most one older one is still pending.
C32_SelfTell ==
    [][HandlingMessage =>
        \A j \in 1..Len(NewLines) :
           NewLines[j].by.o = "notify" =>
              LET id == NewLines[j].by.id
                  pend == DbCheckNotification(notifications,
                                              Head(queue).source)
              IN /\ id < nextId
                 /\ \E i \in 1..Len(pend) : pend[i].id = id
                 /\ Cardinality({i \in 1..Len(pend) : pend[i].id < id}) <= 1
      ]_vars

\* Bob told bob behind two older notifications for bob, and a later
\* message of Bob was answered with that notification
C32_Witness ==
    \E i, j \in 1..Len(sink) :
       /\ i < j
       /\ sink[i].by.o = "cmd"
       /\ sink[i].text = TellReply("bob")
       /\ sink[j].by.o = "notify"
       /\ sink[j].ok
       /\ sink[j].text.a = "Bob"
       /\ sink[j].text.b = "Bob"
       /\ sink[j].by.id >= NotifyBreak + 2

\* the stored notifications whose recipient is the nick up to letter case
MatchingRows(nick) ==
    SelectSeq(notifications, LAMBDA r : Lower(r.recipient) = Lower(nick))

\* C33: the notifications emitted when a user speaks are the oldest stored
\* ones whose recipient equals the speaker's nick up to letter case, two
\* of them at most, whatever the spelling of either; a notification is
\* never emitted when a user speaks whose nick differs from its recipient
\* beyond letter case.
C33_CaseInsensitiveRecipients ==
    [][HandlingMessage =>
        LET pend == MatchingRows(Head(queue).source)
            told == Notified(NewLines)
        IN /\ Len(told) <= Len(pend)
           /\ \A i \in 1..Min(Len(told), Len(pend)) :
                 /\ told[i].by.id = pend[i].id
                 /\ told[i].target = Head(queue).target
                 /\ told[i].text.a = Head(queue).source
           /\ (told # <<>> /\ AllSent) => Len(told) = Min(Len(pend), 2)
      ]_vars

\* a notification told for "bob" was delivered when "Bob" spoke, and none
\* was emitted for alice, who spoke as well
C33_Witness ==
    /\ \E j \in 1..Len(sink) :
          /\ sink[j].by.o = "notify"
          /\ sink[j].ok
          /\ sink[j].text.a = "Bob"
    /\ \E j \in 1..Len(sink) :
          /\ sink[j].by.o = "cmd"
          /\ sink[j].target = "#chan"
    /\ \A j \in 1..Len(sink) :
          sink[j].by.o = "notify" => sink[j].target = "#games"

\* C34: the loop never waits on its own queue for good: whenever it is
\* inside tx2.send(..).await the queue has room, so the send can complete.
C34_LoopCanStep == loop = "send" => Len(queue) < QueueCap

\* task i geocoded a query that was not in the store when it was asked
Geocoded(i) ==
    /\ tasks[i].kind = "location"
    /\ tasks[i].res = "some"

\* the map link of task i is on its way: still to be sent by the task, in
\* the queue, or handed to client.send_privmsg
OwnReply(i) ==
    LET reply == Privmsg(tasks[i].target, MapLink(Geocode(tasks[i].location)),
                         By("task", i))
    IN \/ \E k \in 1..Len(tasks[i].out) : tasks[i].out[k] = reply
       \/ \E k \in 1..Len(queue) : queue[k] = reply
       \/ \E k \in 1..Len(sink) :
             /\ sink[k].by = reply.by
             /\ sink[k].target = reply.target
             /\ sink[k].text = reply.text

\* every command that geocoded keeps its own reply, and no query has two
\* records
OneRecordEachReply ==
    /\ \A i \in 1..Len(tasks) : Geocoded(i) => OwnReply(i)
    /\ \A a, b \in 1..Len(locations) :
          locations[a].loc = locations[b].loc => a = b

\* an insert for a query that has a record is rejected: the record keeps
\* the values inserted first, and nothing but the error line changes
SecondInsertRejected ==
    (/\ CanRecv
     /\ Head(queue).kind = "UpdateLocation"
     /\ queue' = Tail(queue)
     /\ \E a \in 1..Len(locations) : locations[a].loc = Head(queue).loc) =>
       /\ locations' = locations
       /\ printed' = printed \cup
                     {Printed("SQL error updating location: {}", 0)}
       /\ UNCHANGED <<tasks, sink, loop>>

C36_PreferenceBeforeNextCommand ==
    [][(/\ Handling("Weather")
        /\ Head(queue).content.a = ""
        /\ printed' = {}) =>
          LET w == DbCheckWeather(weather, Head(queue).source)
              l == DbCheckLocation(locations, "Berlin")
          IN /\ w # None
             /\ w[1].lat = l[1].lat
             /\ w[1].lon = l[1].lon
      ]_vars

\* what process_messages sends to the game for a message of the game
\* channel that classifies as `task`: the Bot command, without the note of
\* who made it; None when nothing is sent
Forwarded(task) ==
    LET h == Command(Msg("Bob", Games, task, 0), <<>>, TRUE)
    IN IF h.wait = None THEN None
       ELSE Some([kind |-> h.wait[1].msg.kind,
                  target |-> h.wait[1].msg.target,
                  token |-> h.wait[1].msg.token])

\* C37: what is forwarded to the game for an unaddressed single-token
\* message is never what is forwarded for a HangStart, whatever its
\* length argument.
C37_OnlyAddressedStarts ==
    (command # None /\ SubCommand = None) =>
       \A l \in {<<>>, Spelt.short, Spelt.medium, Spelt.long} :
          \/ Forwarded(command[1].task) = None
          \/ Forwarded(command[1].task)
                # Forwarded(Content("HangStart", l, <<>>))

\* C38: the reported low is at or below the low of every candle after the
\* first and the spot price, and the reported high is at or above the high
\* of every such candle and the spot price.
C38_ExtremesBoundData ==
    StatsCalled =>
       LET g == call[1]
       IN /\ g.stats.min.price <= g.spot
          /\ g.stats.max.price >= g.spot
          /\ \A i \in 2..Len(g.coins) :
                /\ g.stats.min.price <= ParseOr(g.coins[i].low, g.coins[i].vwap)
                /\ g.stats.max.price >= ParseOr(g.coins[i].high, g.coins[i].vwap)

\* C39: an addressed coin command followed by "1y" classifies to the time
\* frame of the same command followed by "year".
C39_YearEquivalent ==
    (CoinCommand /\ TimeToken = Spelt.y1) =>
       /\ command[1].task.task = "Coins"
       /\ command[1].task.b = CoinTime(<<Spelt.year>>)

====
